---- MODULE Spec2Model ----
(***************************************************************************)
(* A model of the FCI engine of CheMPS2 (src/CheMPS2/FCI.cpp): the         *)
(* bitstring/counter tables, the excitation lookup tables, the CI-vector   *)
(* addressing, HamTimesVec, apply_excitation and the diagnostics.          *)
(*                                                                         *)
(* Real numbers.  The code works in double precision; the model works in   *)
(* exact arithmetic.  The integrals T and V of the model are integers, and *)
(* every quantity the code multiplies by 0.5 once (Gmat, the Hamiltonian's *)
(* action, its diagonal, its matrix elements) is stored as TWICE its value *)
(* ("half units"), so that it stays an integer.                            *)
(***************************************************************************)
EXTENDS Integers, Sequences, FiniteSets, TLC

(***************************************************************************)
(* Bounds of the model.                                                    *)
(***************************************************************************)
\* Spec: the orbital counts 1..MaxL of the instances whose tables are checked.
MaxL == 3
\* The patterns of orbital irreps: orbital orb has irrep (mult * orb) % NumIrreps
\* for mult in 0..MaxMult.
MaxMult == 2
\* The integral sets 1..NumSeeds.
NumSeeds == 2

(***************************************************************************)
(* Platform constants.                                                     *)
(***************************************************************************)
\* sizeof(double)
SizeofDouble == 8
\* CHAR_BIT * sizeof(unsigned int)
UIntBits == 32

VARIABLES
  pc,     \* "new": not constructed; "ready": constructed; "aborted": an assert failed
  args,   \* the constructor's arguments (Ham, theNel_up, theNel_down, TargetIrrep_in, ...)
  fci,    \* the fields of the FCI instance
  call    \* the last call of a member function: its arguments and what it returned

vars == <<pc, args, fci, call>>

(***************************************************************************)
(* Small helpers.                                                          *)
(***************************************************************************)
RECURSIVE Pow2(_)
Pow2(n) == IF n = 0 THEN 1 ELSE 2 * Pow2(n - 1)

Min2(a, b) == IF a < b THEN a ELSE b
Max2(a, b) == IF a > b THEN a ELSE b

SetMax(S) == CHOOSE x \in S : \A y \in S : y <= x

\* The sum of f[x] over the finite set S of the domain of f.
RECURSIVE SumFcn(_, _)
SumFcn(f, S) ==
  IF S = {} THEN 0
  ELSE LET x == CHOOSE y \in S : TRUE IN f[x] + SumFcn(f, S \ {x})

\* ceil(a / b) for a >= 0, b > 0
CeilDiv(a, b) == (a + b - 1) \div b

\* The value `after`, computed once `before` has been computed: the statements of a
\* loop body run in order, and this keeps the evaluation from nesting one loop
\* iteration inside the next.
InOrder(before, after) == IF before = before THEN after ELSE after

\* The function f itself, with every value computed once (an array filled by a loop).
Filled(f) == f @@ << >>

\* The value of an array element that was never assigned.
Uninitialized == -2

(***************************************************************************)
(* Irreps::directProd: the product of two irreps of an Abelian point group *)
(* with real-valued character table is the bitwise XOR of their numbers.   *)
(***************************************************************************)
RECURSIVE BitXor(_, _)
BitXor(a, b) ==
  IF a = 0 /\ b = 0 THEN 0
  ELSE (((a % 2) + (b % 2)) % 2) + 2 * BitXor(a \div 2, b \div 2)

getIrrepProduct(Irrep1, Irrep2) == BitXor(Irrep1, Irrep2)

(***************************************************************************)
(* The integral provider (class Hamiltonian): the orbital count, the       *)
(* orbitals' irreps, the core energy, the one-body integrals T and the     *)
(* two-body integrals V in physics notation.  Set number seed of the       *)
(* family below; T is symmetric, V has the 8-fold symmetry, and both       *)
(* vanish where the point group forbids them.                              *)
(***************************************************************************)
PairIndex(i, j) == (Max2(i, j) * (Max2(i, j) + 1)) \div 2 + Min2(i, j)

getOrbitalIrrep(Ham, orb) == Ham.irreps[orb]

getEconst(Ham) == Ham.seed

getTmat(Ham, i, j) ==
  IF getOrbitalIrrep(Ham, i) # getOrbitalIrrep(Ham, j) THEN 0
  ELSE ((3 * PairIndex(i, j) + 2 * Ham.seed + Max2(i, j)) % 5) - 2

\* (ij|kl) in chemists' notation
ChemistERI(Ham, i, j, k, l) ==
  LET p == PairIndex(i, j)
      q == PairIndex(k, l)
      P == Max2(p, q)
      Q == Min2(p, q)
  IN IF getIrrepProduct(getIrrepProduct(getOrbitalIrrep(Ham, i), getOrbitalIrrep(Ham, j)),
                        getIrrepProduct(getOrbitalIrrep(Ham, k), getOrbitalIrrep(Ham, l))) # 0
     THEN 0
     ELSE ((P * P + 3 * Q + Ham.seed * (P + 2 * Q + 1)) % 7) - 3

\* <ij|kl> in physics notation = (ik|jl)
getVmat(Ham, i, j, k, l) == ChemistERI(Ham, i, k, j, l)

(***************************************************************************)
(* FCI::str2bits and FCI::bits2str                                         *)
(***************************************************************************)
str2bits(Lval, bitstring) ==
  [bit \in 0 .. Lval - 1 |-> (bitstring \div Pow2(bit)) % 2]

RECURSIVE bits2strLoop(_, _, _)
bits2strLoop(Lval, bits, bit) ==
  IF bit >= Lval THEN 0
  ELSE bits[bit] * Pow2(bit) + bits2strLoop(Lval, bits, bit + 1)

bits2str(Lval, bits) == bits2strLoop(Lval, bits, 0)

(***************************************************************************)
(* FCI::StartupCountersVsBitstrings.  self holds the fields the            *)
(* constructor has set before the call (L, NumIrreps, orb2irrep, Nel_up,   *)
(* Nel_down); the result holds the six tables the function builds.         *)
(***************************************************************************)
getOrb2Irrep(self, orb) == self.orb2irrep[orb]

\* 2^L in an unsigned int: the product wraps to 0 from L = 32 on.
TwoPowL(Lval) == IF Lval >= UIntBits THEN 0 ELSE Pow2(Lval)

\* The number of particles of a bit pattern (the loop over orb, Nparticles++).
RECURSIVE NparticlesLoop(_, _, _)
NparticlesLoop(Lval, bits, orb) ==
  IF orb >= Lval THEN 0
  ELSE (IF bits[orb] # 0 THEN 1 ELSE 0) + NparticlesLoop(Lval, bits, orb + 1)

\* The irrep of a bit pattern (the loop over orb, Irrep = Irrep x irrep(orb)),
\* continued from orbital orb with the product Irrep of the orbitals below it.
RECURSIVE IrrepLoop(_, _, _, _)
IrrepLoop(self, bits, orb, Irrep) ==
  IF orb >= self.L THEN Irrep
  ELSE IrrepLoop(self, bits, orb + 1,
                 IF bits[orb] # 0 THEN getIrrepProduct(Irrep, getOrb2Irrep(self, orb))
                 ELSE Irrep)

\* Mutant of ResetColumn: the loop that resets the column is missing.
ResetColumnMissing(self, tbl, bitstring, irr) == tbl

\* str2cnt[ irr ][ bitstring ] = -1 for every irr (the loop over irr)
RECURSIVE ResetColumn(_, _, _, _)
ResetColumn(self, tbl, bitstring, irr) ==
  IF irr >= self.NumIrreps THEN tbl
  ELSE ResetColumn(self, [tbl EXCEPT ![irr][bitstring] = -1], bitstring, irr + 1)

\* The loop over all bit strings; acc holds numPerIrrep and str2cnt so far.
RECURSIVE CountersLoop(_, _, _)
CountersLoop(self, bitstring, acc) ==
  IF bitstring >= TwoPowL(self.L) THEN acc
  ELSE
    LET bits       == str2bits(self.L, bitstring)
        Nparticles == NparticlesLoop(self.L, bits, 0)
        Irrep      == IrrepLoop(self, bits, 0, 0)
        reset_up   == ResetColumn(self, acc.str2cnt_up, bitstring, 0)
        reset_down == ResetColumn(self, acc.str2cnt_down, bitstring, 0)
        is_up      == Nparticles = self.Nel_up
        is_down    == Nparticles = self.Nel_down
        counted    ==
         [ numPerIrrep_up   |-> IF is_up
                                THEN [acc.numPerIrrep_up EXCEPT ![Irrep] = @ + 1]
                                ELSE acc.numPerIrrep_up,
           numPerIrrep_down |-> IF is_down
                                THEN [acc.numPerIrrep_down EXCEPT ![Irrep] = @ + 1]
                                ELSE acc.numPerIrrep_down,
           str2cnt_up       |-> IF is_up
                                THEN [reset_up EXCEPT ![Irrep][bitstring] = acc.numPerIrrep_up[Irrep]]
                                ELSE reset_up,
           str2cnt_down     |-> IF is_down
                                THEN [reset_down EXCEPT ![Irrep][bitstring] = acc.numPerIrrep_down[Irrep]]
                                ELSE reset_down ]
    IN InOrder(counted, CountersLoop(self, bitstring + 1, counted))

\* The reverse array of one irrep: cnt2str[ str2cnt[ bitstring ] ] = bitstring for
\* the bit strings in increasing order, so the last one assigned stays.
ReverseTable(Lval, str2cnt_irrep, num) ==
  [cnt \in 0 .. num - 1 |->
     LET hits == {bitstring \in 0 .. TwoPowL(Lval) - 1 : str2cnt_irrep[bitstring] = cnt}
     IN IF hits = {} THEN Uninitialized ELSE SetMax(hits)]

StartupCountersVsBitstrings(self) ==
  LET irreps == 0 .. self.NumIrreps - 1
      fresh  == [irrep \in irreps |-> [bitstring \in 0 .. TwoPowL(self.L) - 1 |-> Uninitialized]]
      done   == CountersLoop(self, 0,
                  [ numPerIrrep_up   |-> [irrep \in irreps |-> 0],
                    numPerIrrep_down |-> [irrep \in irreps |-> 0],
                    str2cnt_up       |-> fresh,
                    str2cnt_down     |-> fresh ])
  IN [ numPerIrrep_up   |-> done.numPerIrrep_up,
       numPerIrrep_down |-> done.numPerIrrep_down,
       str2cnt_up       |-> done.str2cnt_up,
       str2cnt_down     |-> done.str2cnt_down,
       cnt2str_up       |-> [irrep \in irreps |->
                               ReverseTable(self.L, done.str2cnt_up[irrep], done.numPerIrrep_up[irrep])],
       cnt2str_down     |-> [irrep \in irreps |->
                               ReverseTable(self.L, done.str2cnt_down[irrep], done.numPerIrrep_down[irrep])] ]

(***************************************************************************)
(* FCI::StartupLookupTables:  sign | new > = E_{creator,annihilator} | old >*)
(* The tables of one spin channel are indexed by the irrep of the new      *)
(* string and by  creator + L * ( annihilator + L * cnt_new ).             *)
(***************************************************************************)
\* Mutant of PhaseLoop: the phase also changes sign for the orbital upto itself.
RECURSIVE PhaseLoopInclusive(_, _, _)
PhaseLoopInclusive(bits, upto, orb) ==
  IF orb > upto THEN 1
  ELSE (IF bits[orb] # 0 THEN -1 ELSE 1) * PhaseLoopInclusive(bits, upto, orb + 1)

\* phase_creator (phase_annihilator) when the loop over the orbitals reaches upto:
\* it has changed sign once for every occupied orbital below upto.
RECURSIVE PhaseLoop(_, _, _)
PhaseLoop(bits, upto, orb) ==
  IF orb >= upto THEN 1
  ELSE (IF bits[orb] # 0 THEN -1 ELSE 1) * PhaseLoop(bits, upto, orb + 1)

\* Mutant of LookupEntry: the creator's bit is not cleared before the annihilator's
\* bit is tested, so that creator = annihilator counts as forbidden.
LookupEntryNoRemove(self, str2cnt, cnt2str, irrep, cnt_new, creator, annihilator) ==
  LET bits == str2bits(self.L, cnt2str[irrep][cnt_new])
  IN IF bits[creator] = 0 \/ bits[annihilator] # 0
     THEN [cnt |-> 0, irrep |-> 0, sign |-> 0]
     ELSE
       LET removed   == [bits EXCEPT ![creator] = 0]
           added     == [removed EXCEPT ![annihilator] = 1]
           irrep_old == getIrrepProduct(irrep,
                          getIrrepProduct(getOrb2Irrep(self, creator),
                                          getOrb2Irrep(self, annihilator)))
       IN [cnt |-> str2cnt[irrep_old][bits2str(self.L, added)], irrep |-> irrep_old,
           sign |-> PhaseLoop(bits, creator, 0) * PhaseLoop(removed, annihilator, 0)]

\* What the loops over creator and annihilator leave in entry
\* creator + L * ( annihilator + L * cnt_new ) of the three tables of irrep.
LookupEntry(self, str2cnt, cnt2str, irrep, cnt_new, creator, annihilator) ==
  LET bits == str2bits(self.L, cnt2str[irrep][cnt_new])
  IN IF bits[creator] = 0
     THEN [cnt |-> 0, irrep |-> 0, sign |-> 0]
     ELSE
       LET removed == [bits EXCEPT ![creator] = 0]
       IN IF removed[annihilator] # 0
          THEN [cnt |-> 0, irrep |-> 0, sign |-> 0]
          ELSE
            LET added     == [removed EXCEPT ![annihilator] = 1]
                irrep_old == getIrrepProduct(irrep,
                               getIrrepProduct(getOrb2Irrep(self, creator),
                                               getOrb2Irrep(self, annihilator)))
                cnt_old   == str2cnt[irrep_old][bits2str(self.L, added)]
                phase     == PhaseLoop(bits, creator, 0) * PhaseLoop(removed, annihilator, 0)
            IN [cnt |-> cnt_old, irrep |-> irrep_old, sign |-> phase]

\* The three tables of one spin channel, as one table of records (cnt, irrep, sign).
LookupChannel(self, numPerIrrep, str2cnt, cnt2str) ==
  [irrep \in 0 .. self.NumIrreps - 1 |->
     [entry \in 0 .. self.L * self.L * numPerIrrep[irrep] - 1 |->
        LookupEntry(self, str2cnt, cnt2str, irrep,
                    entry \div (self.L * self.L), entry % self.L, (entry \div self.L) % self.L)]]

StartupLookupTables(self) ==
  LET alpha  == LookupChannel(self, self.numPerIrrep_up, self.str2cnt_up, self.cnt2str_up)
      beta   == LookupChannel(self, self.numPerIrrep_down, self.str2cnt_down, self.cnt2str_down)
      irreps == 0 .. self.NumIrreps - 1
  IN [ lookup_cnt_alpha   |-> [irrep \in irreps |-> [e \in DOMAIN alpha[irrep] |-> alpha[irrep][e].cnt]],
       lookup_irrep_alpha |-> [irrep \in irreps |-> [e \in DOMAIN alpha[irrep] |-> alpha[irrep][e].irrep]],
       lookup_sign_alpha  |-> [irrep \in irreps |-> [e \in DOMAIN alpha[irrep] |-> alpha[irrep][e].sign]],
       lookup_cnt_beta    |-> [irrep \in irreps |-> [e \in DOMAIN beta[irrep] |-> beta[irrep][e].cnt]],
       lookup_irrep_beta  |-> [irrep \in irreps |-> [e \in DOMAIN beta[irrep] |-> beta[irrep][e].irrep]],
       lookup_sign_beta   |-> [irrep \in irreps |-> [e \in DOMAIN beta[irrep] |-> beta[irrep][e].sign]] ]

(***************************************************************************)
(* FCI::StartupIrrepCenter                                                 *)
(***************************************************************************)
\* The pairs creator <= annihilator with irrep product irrep_center, in the order of
\* the two nested loops, from (creator, annihilator) on.
RECURSIVE CenterPairsLoop(_, _, _, _)
CenterPairsLoop(self, irrep_center, creator, annihilator) ==
  IF creator >= self.L THEN << >>
  ELSE IF annihilator >= self.L
       THEN CenterPairsLoop(self, irrep_center, creator + 1, creator + 1)
       ELSE (IF getIrrepProduct(getOrb2Irrep(self, creator), getOrb2Irrep(self, annihilator))
                  = irrep_center
             THEN << <<creator, annihilator>> >>
             ELSE << >>)
            \o CenterPairsLoop(self, irrep_center, creator, annihilator + 1)

\* JumpsLoop with the down irrep taken as irrep_up x TargetIrrep for every center irrep
RECURSIVE JumpsLoopNoCenter(_, _, _)
JumpsLoopNoCenter(self, localTargetIrrep, irrep_up) ==
  IF irrep_up = 0 THEN 0
  ELSE LET irrep_down == getIrrepProduct(irrep_up - 1, self.TargetIrrep)
           temp       == self.numPerIrrep_up[irrep_up - 1] * self.numPerIrrep_down[irrep_down]
       IN JumpsLoopNoCenter(self, localTargetIrrep, irrep_up - 1) + temp

\* irrep_center_jumps[ irrep_center ][ 0 .. upto ], the loop over irrep_up
RECURSIVE JumpsLoop(_, _, _)
JumpsLoop(self, localTargetIrrep, irrep_up) ==
  IF irrep_up = 0 THEN 0
  ELSE LET irrep_down == getIrrepProduct(irrep_up - 1, localTargetIrrep)
           temp       == self.numPerIrrep_up[irrep_up - 1] * self.numPerIrrep_down[irrep_down]
       IN JumpsLoop(self, localTargetIrrep, irrep_up - 1) + temp

\* HXVsizeWorkspace after the loop over the center irreps below upto
RECURSIVE WorkspaceLoop(_, _, _, _)
WorkspaceLoop(self, num, jumps, upto) ==
  IF upto = 0 THEN 0
  ELSE LET before == WorkspaceLoop(self, num, jumps, upto - 1)
           here   == num[upto - 1] * jumps[upto - 1][self.NumIrreps]
       IN IF here > before THEN here ELSE before

\* The budget maxMemWorkMB is kept in bytes (units of 1e-6 MB), so that
\* maxMemWorkMB * 1e6 is the field itself.
ClampedWorkspace(self, unclamped) ==
  LET numberOfBytes == 2 * SizeofDouble * unclamped
  IN IF self.FCIverbose > 0 /\ self.maxMemWorkMB < numberOfBytes
     THEN CeilDiv(self.maxMemWorkMB, 2 * SizeofDouble)
     ELSE unclamped

StartupIrrepCenter(self) ==
  LET irreps == 0 .. self.NumIrreps - 1
      pairs  == [irrep_center \in irreps |-> CenterPairsLoop(self, irrep_center, 0, 0)]
      num    == [irrep_center \in irreps |-> Len(pairs[irrep_center])]
      jumps  == [irrep_center \in irreps |->
                   [irrep_up \in 0 .. self.NumIrreps |->
                      JumpsLoop(self, getIrrepProduct(irrep_center, self.TargetIrrep), irrep_up)]]
  IN [ irrep_center_num      |-> num,
       irrep_center_crea_orb |-> [irrep_center \in irreps |->
                                    [pair \in 0 .. num[irrep_center] - 1 |-> pairs[irrep_center][pair + 1][1]]],
       irrep_center_anni_orb |-> [irrep_center \in irreps |->
                                    [pair \in 0 .. num[irrep_center] - 1 |-> pairs[irrep_center][pair + 1][2]]],
       irrep_center_jumps    |-> jumps,
       HXVsizeWorkspace      |-> ClampedWorkspace(self, WorkspaceLoop(self, num, jumps, self.NumIrreps)) ]

(***************************************************************************)
(* FCI::FCI.  Gmat is stored in half units:                                *)
(*   2 * G_ij = 2 * T_ij - sum_k <ik|kj>.                                  *)
(* NumIrreps is the number of irreps of the group of the Hamiltonian.      *)
(***************************************************************************)
GmatEntry(Ham, orb1, orb2) ==
  2 * getTmat(Ham, orb1, orb2)
    - SumFcn([orb3 \in 0 .. Ham.L - 1 |-> getVmat(Ham, orb1, orb3, orb3, orb2)], 0 .. Ham.L - 1)

\* ConstructorAsserts without assert( maxMemWorkMB > 0.0 )
ConstructorAssertsNoMemory(Ham, theNel_up, theNel_down, maxMemWorkMB_in) ==
  /\ theNel_up <= Ham.L
  /\ theNel_down <= Ham.L

\* Whether the three asserts at the head of the constructor pass.
ConstructorAsserts(Ham, theNel_up, theNel_down, maxMemWorkMB_in) ==
  /\ theNel_up <= Ham.L
  /\ theNel_down <= Ham.L
  /\ maxMemWorkMB_in > 0

FCI(Ham, theNel_up, theNel_down, TargetIrrep_in, maxMemWorkMB_in, FCIverbose_in) ==
  LET L0    == Ham.L
      basic == [ FCIverbose   |-> FCIverbose_in,
                 maxMemWorkMB |-> maxMemWorkMB_in,
                 L            |-> L0,
                 Nel_up       |-> theNel_up,
                 Nel_down     |-> theNel_down,
                 NumIrreps    |-> Ham.NumIrreps,
                 TargetIrrep  |-> TargetIrrep_in,
                 orb2irrep    |-> [orb \in 0 .. L0 - 1 |-> getOrbitalIrrep(Ham, orb)],
                 Econstant    |-> getEconst(Ham),
                 Gmat         |-> [idx \in 0 .. L0 * L0 - 1 |->
                                     GmatEntry(Ham, idx % L0, idx \div L0)],
                 ERI          |-> [idx \in 0 .. L0 * L0 * L0 * L0 - 1 |->
                                     getVmat(Ham, idx % L0, (idx \div (L0 * L0)) % L0,
                                                  (idx \div L0) % L0, idx \div (L0 * L0 * L0))] ]
      counters == basic @@ StartupCountersVsBitstrings(basic)
      lookups  == counters @@ StartupLookupTables(counters)
  IN lookups @@ StartupIrrepCenter(lookups)

getVecLength(self, irrep_center) == self.irrep_center_jumps[irrep_center][self.NumIrreps]
getGmat(self, orb1, orb2) == self.Gmat[orb1 + self.L * orb2]
getERI(self, orb1, orb2, orb3, orb4) ==
  self.ERI[orb1 + self.L * (orb2 + self.L * (orb3 + self.L * orb4))]

(***************************************************************************)
(* CI-vector addressing: FCI::getUpIrrepOfCounter, FCI::getBitsOfCounter,  *)
(* FCI::getFCIcoeff                                                        *)
(***************************************************************************)
\* while ( counter < irrep_center_jumps[ irrep_center ][ irrep_up-1 ] ){ irrep_up--; }
RECURSIVE UpIrrepLoop(_, _, _, _)
UpIrrepLoop(self, irrep_center, counter, irrep_up) ==
  IF counter < self.irrep_center_jumps[irrep_center][irrep_up - 1]
  THEN UpIrrepLoop(self, irrep_center, counter, irrep_up - 1)
  ELSE irrep_up

getUpIrrepOfCounter(self, irrep_center, counter) ==
  UpIrrepLoop(self, irrep_center, counter, self.NumIrreps) - 1

getBitsOfCounter(self, irrep_center, counter) ==
  LET localTargetIrrep == getIrrepProduct(irrep_center, self.TargetIrrep)
      irrep_up    == getUpIrrepOfCounter(self, irrep_center, counter)
      irrep_down  == getIrrepProduct(irrep_up, localTargetIrrep)
      count_up    == (counter - self.irrep_center_jumps[irrep_center][irrep_up])
                       % self.numPerIrrep_up[irrep_up]
      count_down  == (counter - self.irrep_center_jumps[irrep_center][irrep_up])
                       \div self.numPerIrrep_up[irrep_up]
      string_up   == self.cnt2str_up[irrep_up][count_up]
      string_down == self.cnt2str_down[irrep_down][count_down]
  IN [ bits_up   |-> str2bits(self.L, string_up),
       bits_down |-> str2bits(self.L, string_down) ]

\* FCIcoeffIndex with the number of down strings as the stride of the down counter
FCIcoeffIndexDownStride(self, bits_up, bits_down) ==
  LET string_up    == bits2str(self.L, bits_up)
      string_down  == bits2str(self.L, bits_down)
      irrep_up     == IrrepLoop(self, bits_up, 0, 0)
      irrep_down   == IrrepLoop(self, bits_down, 0, 0)
      counter_up   == self.str2cnt_up[irrep_up][string_up]
      counter_down == self.str2cnt_down[irrep_down][string_down]
  IN IF counter_up = -1 \/ counter_down = -1
     THEN -1
     ELSE self.irrep_center_jumps[0][irrep_up] + counter_up
            + self.numPerIrrep_down[irrep_down] * counter_down

\* The index getFCIcoeff reads in vector, or -1 when it returns 0.0 without reading.
FCIcoeffIndex(self, bits_up, bits_down) ==
  LET string_up    == bits2str(self.L, bits_up)
      string_down  == bits2str(self.L, bits_down)
      irrep_up     == IrrepLoop(self, bits_up, 0, 0)
      irrep_down   == IrrepLoop(self, bits_down, 0, 0)
      counter_up   == self.str2cnt_up[irrep_up][string_up]
      counter_down == self.str2cnt_down[irrep_down][string_down]
  IN IF counter_up = -1 \/ counter_down = -1
     THEN -1
     ELSE self.irrep_center_jumps[0][irrep_up] + counter_up
            + self.numPerIrrep_up[irrep_up] * counter_down

(***************************************************************************)
(* FCI::HamTimesVec.  The output is in half units (twice H * input).       *)
(***************************************************************************)
ClearVector(vecLength) == [cnt \in 0 .. vecLength - 1 |-> 0]

\* space_per_vectorpiece of a center irrep; the cast of the floor to unsigned int
\* changes no value the model reaches.
SpacePerVectorpiece(self, irrep_center) ==
  IF self.irrep_center_num[irrep_center] = 0
  THEN self.HXVsizeWorkspace
  ELSE self.HXVsizeWorkspace \div self.irrep_center_num[irrep_center]

\* numIterations of a center irrep.  With space_per_vectorpiece = 0 the division is
\* undefined; where it does not trap, the quotient is 0.
NumIterations(self, irrep_center) ==
  LET localVecLength == getVecLength(self, irrep_center)
      space          == SpacePerVectorpiece(self, irrep_center)
      numIterations  == IF space = 0 THEN 0 ELSE localVecLength \div space
  IN IF localVecLength > numIterations * space THEN numIterations + 1 ELSE numIterations

\* The contribution sign * input[ ... ] of E^{alpha}_{crea,anni} at the new determinant
\* (irrep_new_up, count_new_up, count_new_down), 0 when the sign is 0.
AlphaGather(self, input, crea, anni, irrep_new_up, count_new_up, count_new_down) ==
  LET entry_up == crea + self.L * (anni + self.L * count_new_up)
      sign_up  == self.lookup_sign_alpha[irrep_new_up][entry_up]
  IN IF sign_up # 0
     THEN LET irrep_old_up == self.lookup_irrep_alpha[irrep_new_up][entry_up]
              cnt_old_up   == self.lookup_cnt_alpha[irrep_new_up][entry_up]
          IN sign_up * input[self.irrep_center_jumps[0][irrep_old_up] + cnt_old_up
                               + self.numPerIrrep_up[irrep_old_up] * count_new_down]
     ELSE 0

\* The same for E^{beta}_{crea,anni}.
BetaGather(self, input, crea, anni, irrep_new_up, irrep_new_down, count_new_up, count_new_down) ==
  LET entry_down == crea + self.L * (anni + self.L * count_new_down)
      sign_down  == self.lookup_sign_beta[irrep_new_down][entry_down]
  IN IF sign_down # 0
     THEN LET cnt_old_down == self.lookup_cnt_beta[irrep_new_down][entry_down]
          IN sign_down * input[self.irrep_center_jumps[0][irrep_new_up] + count_new_up
                                 + self.numPerIrrep_up[irrep_new_up] * cnt_old_down]
     ELSE 0

\* myResult of the first parallel loop: ( E_{i<=j} + ( 1 - delta_ij ) E_{j>i} ) | input >
\* for the pair and the vector counter of loopvariable.
Workbig1Entry(self, irrep_center, input, pair, veccounter) ==
  LET localTargetIrrep == getIrrepProduct(self.TargetIrrep, irrep_center)
      creator        == self.irrep_center_crea_orb[irrep_center][pair]
      annihilator    == self.irrep_center_anni_orb[irrep_center][pair]
      irrep_new_up   == getUpIrrepOfCounter(self, irrep_center, veccounter)
      irrep_new_down == getIrrepProduct(irrep_new_up, localTargetIrrep)
      offset         == veccounter - self.irrep_center_jumps[irrep_center][irrep_new_up]
      count_new_up   == offset % self.numPerIrrep_up[irrep_new_up]
      count_new_down == offset \div self.numPerIrrep_up[irrep_new_up]
  IN AlphaGather(self, input, creator, annihilator, irrep_new_up, count_new_up, count_new_down)
     + BetaGather(self, input, creator, annihilator, irrep_new_up, irrep_new_down,
                  count_new_up, count_new_down)
     + (IF annihilator > creator
        THEN AlphaGather(self, input, annihilator, creator, irrep_new_up, count_new_up, count_new_down)
             + BetaGather(self, input, annihilator, creator, irrep_new_up, irrep_new_down,
                          count_new_up, count_new_down)
        ELSE 0)

\* Workbig1 with the vector counter taken from the start of the vector in every chunk
Workbig1NoStart(self, irrep_center, input, veccounter_start, veccounter_stop) ==
  LET numPairs == self.irrep_center_num[irrep_center]
  IN Filled([loopvariable \in 0 .. numPairs * (veccounter_stop - veccounter_start) - 1 |->
               Workbig1Entry(self, irrep_center, input, loopvariable % numPairs,
                             loopvariable \div numPairs)])

\* HXVworkbig1[ 0 .. loopsize - 1 ] of one chunk
Workbig1(self, irrep_center, input, veccounter_start, veccounter_stop) ==
  LET numPairs == self.irrep_center_num[irrep_center]
  IN Filled([loopvariable \in 0 .. numPairs * (veccounter_stop - veccounter_start) - 1 |->
               Workbig1Entry(self, irrep_center, input, loopvariable % numPairs,
                             veccounter_start + (loopvariable \div numPairs))])

\* The one-body terms (irrep_center = 0): the dgemm_ that adds
\* sum_pair HXVworkbig1[ pair + numPairs * m ] * Gmat( pair ) to output[ veccounter_start + m ].
OneBody(self, output, workbig1, veccounter_start, veccounter_stop) ==
  LET numPairs == self.irrep_center_num[0]
  IN [cnt \in DOMAIN output |->
        IF cnt >= veccounter_start /\ cnt < veccounter_stop
        THEN output[cnt]
             + SumFcn([pair \in 0 .. numPairs - 1 |->
                         workbig1[pair + numPairs * (cnt - veccounter_start)]
                           * getGmat(self, self.irrep_center_crea_orb[0][pair],
                                           self.irrep_center_anni_orb[0][pair])],
                      0 .. numPairs - 1)
        ELSE output[cnt]]

\* HXVworkbig2 of one chunk: the dgemm_ of 0.5 * ( pair1 | pair2 ) with HXVworkbig1.
\* In half units 0.5 * ERI is ERI.
Workbig2(self, irrep_center, workbig1, veccounter_start, veccounter_stop) ==
  LET numPairs == self.irrep_center_num[irrep_center]
      crea     == self.irrep_center_crea_orb[irrep_center]
      anni     == self.irrep_center_anni_orb[irrep_center]
  IN Filled([idx \in 0 .. numPairs * (veccounter_stop - veccounter_start) - 1 |->
               SumFcn([pair2 \in 0 .. numPairs - 1 |->
                         getERI(self, crea[idx % numPairs], anni[idx % numPairs],
                                      crea[pair2], anni[pair2])
                           * workbig1[pair2 + numPairs * (idx \div numPairs)]],
                      0 .. numPairs - 1)])

\* ScatterTarget whose alpha location leaves out the down counter
ScatterTargetNoDownStride(self, irrep_center, spin, crea, anni, veccounter) ==
  LET localTargetIrrep == getIrrepProduct(self.TargetIrrep, irrep_center)
      irrep_old_up   == getUpIrrepOfCounter(self, irrep_center, veccounter)
      offset         == veccounter - self.irrep_center_jumps[irrep_center][irrep_old_up]
      count_old_up   == offset % self.numPerIrrep_up[irrep_old_up]
      count_old_down == offset \div self.numPerIrrep_up[irrep_old_up]
  IN IF spin = "up"
     THEN LET entry_up == crea + self.L * (anni + self.L * count_old_up)
              sign_up  == self.lookup_sign_alpha[irrep_old_up][entry_up]
          IN IF sign_up # 0
             THEN LET irrep_new_up == self.lookup_irrep_alpha[irrep_old_up][entry_up]
                      cnt_new_up   == self.lookup_cnt_alpha[irrep_old_up][entry_up]
                  IN [ sign |-> sign_up,
                       location_new |-> self.irrep_center_jumps[0][irrep_new_up] + cnt_new_up
                                          + 0 * count_old_down ]
             ELSE [sign |-> 0, location_new |-> 0]
     ELSE LET entry_down     == crea + self.L * (anni + self.L * count_old_down)
              irrep_old_down == getIrrepProduct(irrep_old_up, localTargetIrrep)
              sign_down      == self.lookup_sign_beta[irrep_old_down][entry_down]
          IN IF sign_down # 0
             THEN LET cnt_new_down == self.lookup_cnt_beta[irrep_old_down][entry_down]
                  IN [ sign |-> sign_down,
                       location_new |-> self.irrep_center_jumps[0][irrep_old_up] + count_old_up
                                          + self.numPerIrrep_up[irrep_old_up] * cnt_new_down ]
             ELSE [sign |-> 0, location_new |-> 0]

\* Where one iteration of a scatter loop adds, and with which sign (0: nowhere).
\* spin "up": E^{alpha}_{crea,anni}; the loop reads entry crea + L * ( anni + L * count_old ).
ScatterTarget(self, irrep_center, spin, crea, anni, veccounter) ==
  LET localTargetIrrep == getIrrepProduct(self.TargetIrrep, irrep_center)
      irrep_old_up   == getUpIrrepOfCounter(self, irrep_center, veccounter)
      offset         == veccounter - self.irrep_center_jumps[irrep_center][irrep_old_up]
      count_old_up   == offset % self.numPerIrrep_up[irrep_old_up]
      count_old_down == offset \div self.numPerIrrep_up[irrep_old_up]
  IN IF spin = "up"
     THEN LET entry_up == crea + self.L * (anni + self.L * count_old_up)
              sign_up  == self.lookup_sign_alpha[irrep_old_up][entry_up]
          IN IF sign_up # 0
             THEN LET irrep_new_up == self.lookup_irrep_alpha[irrep_old_up][entry_up]
                      cnt_new_up   == self.lookup_cnt_alpha[irrep_old_up][entry_up]
                  IN [ sign |-> sign_up,
                       location_new |-> self.irrep_center_jumps[0][irrep_new_up] + cnt_new_up
                                          + self.numPerIrrep_up[irrep_new_up] * count_old_down ]
             ELSE [sign |-> 0, location_new |-> 0]
     ELSE LET entry_down     == crea + self.L * (anni + self.L * count_old_down)
              irrep_old_down == getIrrepProduct(irrep_old_up, localTargetIrrep)
              sign_down      == self.lookup_sign_beta[irrep_old_down][entry_down]
          IN IF sign_down # 0
             THEN LET cnt_new_down == self.lookup_cnt_beta[irrep_old_down][entry_down]
                  IN [ sign |-> sign_down,
                       location_new |-> self.irrep_center_jumps[0][irrep_old_up] + count_old_up
                                          + self.numPerIrrep_up[irrep_old_up] * cnt_new_down ]
             ELSE [sign |-> 0, location_new |-> 0]

\* One scatter loop over veccounter (its iterations in increasing order).  A location
\* beyond the output vector is kept as an element outside 0 .. getVecLength( 0 ) - 1.
RECURSIVE ScatterLoop(_, _, _, _, _, _, _, _, _, _)
ScatterLoop(self, irrep_center, output, workbig2, pair, spin, crea, anni, veccounter, range) ==
  IF veccounter >= range[2] THEN output
  ELSE LET t == ScatterTarget(self, irrep_center, spin, crea, anni, veccounter)
           numPairs == self.irrep_center_num[irrep_center]
           term == t.sign * workbig2[pair + numPairs * (veccounter - range[1])]
           added == IF t.sign = 0 THEN output
                    ELSE IF t.location_new \in DOMAIN output
                         THEN [output EXCEPT ![t.location_new] = @ + term]
                         ELSE output @@ (t.location_new :> term)
       IN InOrder(added, ScatterLoop(self, irrep_center, added, workbig2, pair, spin,
                                     crea, anni, veccounter + 1, range))

\* The loop over the pairs of the scatter step, and for each pair orbi <= orbj its
\* scatter loops in their order: 0 for E_{j,i}^{alpha}, 1 for E_{j,i}^{beta} and, for
\* orbj > orbi only, 2 for E_{i,j}^{alpha}, 3 for E_{i,j}^{beta}.
RECURSIVE ScatterPairs(_, _, _, _, _, _, _)
ScatterPairs(self, irrep_center, output, workbig2, pair, loop, range) ==
  IF pair >= self.irrep_center_num[irrep_center] THEN output
  ELSE IF loop >= 4 THEN ScatterPairs(self, irrep_center, output, workbig2, pair + 1, 0, range)
  ELSE LET orbi  == self.irrep_center_crea_orb[irrep_center][pair]
           orbj  == self.irrep_center_anni_orb[irrep_center][pair]
           spin  == IF loop % 2 = 0 THEN "up" ELSE "down"
           crea  == IF loop < 2 THEN orbj ELSE orbi
           anni  == IF loop < 2 THEN orbi ELSE orbj
           after == IF loop < 2 \/ orbj > orbi
                    THEN ScatterLoop(self, irrep_center, output, workbig2, pair, spin,
                                     crea, anni, range[1], range)
                    ELSE output
       IN InOrder(after, ScatterPairs(self, irrep_center, after, workbig2, pair, loop + 1, range))

\* The chunk [ veccounter_start , veccounter_stop ) of iteration `iteration`.
ChunkRange(self, irrep_center, iteration) ==
  LET localVecLength == getVecLength(self, irrep_center)
      space          == SpacePerVectorpiece(self, irrep_center)
      guess_stop     == (iteration + 1) * space
  IN << iteration * space, IF guess_stop > localVecLength THEN localVecLength ELSE guess_stop >>

\* The body of the loop over the iterations, from `iteration` on.
RECURSIVE ChunkLoop(_, _, _, _, _)
ChunkLoop(self, irrep_center, input, output, iteration) ==
  IF iteration >= NumIterations(self, irrep_center) THEN output
  ELSE LET range    == ChunkRange(self, irrep_center, iteration)
           workbig1 == Workbig1(self, irrep_center, input, range[1], range[2])
           one_body == IF irrep_center = 0
                       THEN OneBody(self, output, workbig1, range[1], range[2])
                       ELSE output
           workbig2 == Workbig2(self, irrep_center, workbig1, range[1], range[2])
           scattered == ScatterPairs(self, irrep_center, Filled(one_body), workbig2, 0, 0, range)
       IN InOrder(scattered, ChunkLoop(self, irrep_center, input, scattered, iteration + 1))

\* The loop over the center irreps, from irrep_center on.
RECURSIVE CenterLoop(_, _, _, _)
CenterLoop(self, input, output, irrep_center) ==
  IF irrep_center >= self.NumIrreps THEN output
  ELSE LET done == ChunkLoop(self, irrep_center, input, output, 0)
       IN InOrder(done, CenterLoop(self, input, done, irrep_center + 1))

\* The center irreps at which HamTimesVec divides by space_per_vectorpiece = 0.
DividesByZero(self) ==
  \E irrep_center \in 0 .. self.NumIrreps - 1 : SpacePerVectorpiece(self, irrep_center) = 0

\* What the division by space_per_vectorpiece = 0 does: the processor traps
\* (the process ends with SIGFPE), or it gives the quotient 0 and the call goes on.
DivisionByZeroOutcomes == {"trap", "quotient 0"}

\* output after HamTimesVec( input , output ) has returned.
HamTimesVec(self, input) ==
  Filled(CenterLoop(self, input, ClearVector(getVecLength(self, 0)), 0))

(***************************************************************************)
(* FCI::apply_excitation.  An access is one execution of the statement     *)
(* result_vector[ write ] += sign * orig_vector[ read ] of the inner loops. *)
(***************************************************************************)
\* AlphaAccesses with the stride of the result block for the source block
AlphaAccessesResultStride(self, crea, anni, orig_irrep_center, result_irrep_center, result_target_irrep) ==
  UNION { UNION {
    LET result_irrep_down == getIrrepProduct(result_irrep_up, result_target_irrep)
        entry_up      == crea + self.L * (anni + self.L * result_count_up)
        sign_up       == self.lookup_sign_alpha[result_irrep_up][entry_up]
        orig_irrep_up == self.lookup_irrep_alpha[result_irrep_up][entry_up]
        orig_count_up == self.lookup_cnt_alpha[result_irrep_up][entry_up]
        result_location_base ==
          self.irrep_center_jumps[result_irrep_center][result_irrep_up] + result_count_up
        orig_location_base ==
          self.irrep_center_jumps[orig_irrep_center][orig_irrep_up] + orig_count_up
        result_stride == self.numPerIrrep_up[result_irrep_up]
        orig_stride   == self.numPerIrrep_up[result_irrep_up]
    IN IF sign_up # 0
       THEN { [ loop  |-> <<"alpha", result_irrep_up, result_count_up, count_down>>,
                sign  |-> sign_up,
                write |-> result_location_base + result_stride * count_down,
                read  |-> orig_location_base + orig_stride * count_down ] :
              count_down \in 0 .. self.numPerIrrep_down[result_irrep_down] - 1 }
       ELSE {} :
    result_count_up \in 0 .. self.numPerIrrep_up[result_irrep_up] - 1 } :
    result_irrep_up \in 0 .. self.NumIrreps - 1 }

\* The accesses of the loops of E^{alpha}_{crea,anni}
AlphaAccesses(self, crea, anni, orig_irrep_center, result_irrep_center, result_target_irrep) ==
  UNION { UNION {
    LET result_irrep_down == getIrrepProduct(result_irrep_up, result_target_irrep)
        entry_up      == crea + self.L * (anni + self.L * result_count_up)
        sign_up       == self.lookup_sign_alpha[result_irrep_up][entry_up]
        orig_irrep_up == self.lookup_irrep_alpha[result_irrep_up][entry_up]
        orig_count_up == self.lookup_cnt_alpha[result_irrep_up][entry_up]
        result_location_base ==
          self.irrep_center_jumps[result_irrep_center][result_irrep_up] + result_count_up
        orig_location_base ==
          self.irrep_center_jumps[orig_irrep_center][orig_irrep_up] + orig_count_up
        result_stride == self.numPerIrrep_up[result_irrep_up]
        orig_stride   == self.numPerIrrep_up[orig_irrep_up]
    IN IF sign_up # 0
       THEN { [ loop  |-> <<"alpha", result_irrep_up, result_count_up, count_down>>,
                sign  |-> sign_up,
                write |-> result_location_base + result_stride * count_down,
                read  |-> orig_location_base + orig_stride * count_down ] :
              count_down \in 0 .. self.numPerIrrep_down[result_irrep_down] - 1 }
       ELSE {} :
    result_count_up \in 0 .. self.numPerIrrep_up[result_irrep_up] - 1 } :
    result_irrep_up \in 0 .. self.NumIrreps - 1 }

\* The accesses of the loops of E^{beta}_{crea,anni}
BetaAccesses(self, crea, anni, orig_irrep_center, result_irrep_center, result_target_irrep) ==
  UNION { UNION {
    LET result_irrep_down == getIrrepProduct(result_irrep_up, result_target_irrep)
        entry_down      == crea + self.L * (anni + self.L * result_count_down)
        sign_down       == self.lookup_sign_beta[result_irrep_down][entry_down]
        orig_count_down == self.lookup_cnt_beta[result_irrep_down][entry_down]
        result_location_base ==
          self.irrep_center_jumps[result_irrep_center][result_irrep_up]
            + self.numPerIrrep_up[result_irrep_up] * result_count_down
        orig_location_base ==
          self.irrep_center_jumps[orig_irrep_center][result_irrep_up]
            + self.numPerIrrep_up[result_irrep_up] * orig_count_down
    IN IF sign_down # 0
       THEN { [ loop  |-> <<"beta", result_irrep_up, result_count_down, count_up>>,
                sign  |-> sign_down,
                write |-> result_location_base + count_up,
                read  |-> orig_location_base + count_up ] :
              count_up \in 0 .. self.numPerIrrep_up[result_irrep_up] - 1 }
       ELSE {} :
    result_count_down \in
      0 .. self.numPerIrrep_down[getIrrepProduct(result_irrep_up, result_target_irrep)] - 1 } :
    result_irrep_up \in 0 .. self.NumIrreps - 1 }

\* vector[ index ]; beyond the vector the value is whatever the memory holds.
ReadVector(vector, index) ==
  IF index \in DOMAIN vector THEN vector[index] ELSE Uninitialized

\* apply_excitation( orig_vector , result_vector , crea , anni , orig_target_irrep ):
\* the result vector (with the elements written beyond its length, if any) and the
\* indices read and written.  The sums are exact, so the order of the additions to an
\* element does not show.
apply_excitation(self, orig_vector, crea, anni, orig_target_irrep) ==
  LET result_target_irrep ==
        getIrrepProduct(getIrrepProduct(self.orb2irrep[crea], self.orb2irrep[anni]),
                        orig_target_irrep)
      orig_irrep_center   == getIrrepProduct(self.TargetIrrep, orig_target_irrep)
      result_irrep_center == getIrrepProduct(self.TargetIrrep, result_target_irrep)
      result_length       == getVecLength(self, result_irrep_center)
      accesses == AlphaAccesses(self, crea, anni, orig_irrep_center, result_irrep_center,
                                result_target_irrep)
                    \cup BetaAccesses(self, crea, anni, orig_irrep_center,
                                      result_irrep_center, result_target_irrep)
      reads    == {a.read : a \in accesses}
      writes   == {a.write : a \in accesses}
  IN [ result_irrep_center |-> result_irrep_center,
       orig_irrep_center   |-> orig_irrep_center,
       reads  |-> reads,
       writes |-> writes,
       result_vector |->
         Filled([loc \in (0 .. result_length - 1) \cup writes |->
                   LET here == {a \in accesses : a.write = loc}
                   IN SumFcn([a \in here |-> a.sign * ReadVector(orig_vector, a.read)], here)]) ]

(***************************************************************************)
(* FCI::DiagHam and FCI::GetMatrixElement, in half units (twice the        *)
(* matrix element), so that 0.5 * getERI is getERI.                        *)
(***************************************************************************)
\* DiagHamEntry without the exchange term
DiagHamEntryNoExchange(self, bits_up, bits_down) ==
  SumFcn([orb1 \in (0 .. self.L - 1) |->
    LET n_tot_orb1 == bits_up[orb1] + bits_down[orb1]
    IN n_tot_orb1 * getGmat(self, orb1, orb1)
       + SumFcn([orb2 \in (0 .. self.L - 1) |->
                   n_tot_orb1 * (bits_up[orb2] + bits_down[orb2])
                     * getERI(self, orb1, orb1, orb2, orb2)
                   + 0 * getERI(self, orb1, orb2, orb2, orb1)],
                (0 .. self.L - 1))],
    (0 .. self.L - 1))

\* myResult of DiagHam for the determinant with the given bits
DiagHamEntry(self, bits_up, bits_down) ==
  SumFcn([orb1 \in (0 .. self.L - 1) |->
    LET n_tot_orb1 == bits_up[orb1] + bits_down[orb1]
    IN n_tot_orb1 * getGmat(self, orb1, orb1)
       + SumFcn([orb2 \in (0 .. self.L - 1) |->
                   n_tot_orb1 * (bits_up[orb2] + bits_down[orb2])
                     * getERI(self, orb1, orb1, orb2, orb2)
                   + (n_tot_orb1 - bits_up[orb1] * bits_up[orb2]
                        - bits_down[orb1] * bits_down[orb2])
                       * getERI(self, orb1, orb2, orb2, orb1)],
                (0 .. self.L - 1))],
    (0 .. self.L - 1))

DiagHam(self) ==
  Filled([counter \in 0 .. getVecLength(self, 0) - 1 |->
            LET bits == getBitsOfCounter(self, 0, counter)
            IN DiagHamEntry(self, bits.bits_up, bits.bits_down)])

\* The branch |bra> == |ket> of GetMatrixElement, a copy of the loops of DiagHam
DiagHamCopy(self, bits_ket_up, bits_ket_down) ==
  SumFcn([orb1 \in (0 .. self.L - 1) |->
    LET n_tot_orb1 == bits_ket_up[orb1] + bits_ket_down[orb1]
    IN n_tot_orb1 * getGmat(self, orb1, orb1)
       + SumFcn([orb2 \in (0 .. self.L - 1) |->
                   n_tot_orb1 * (bits_ket_up[orb2] + bits_ket_down[orb2])
                     * getERI(self, orb1, orb1, orb2, orb2)
                   + (n_tot_orb1 - bits_ket_up[orb1] * bits_ket_up[orb2]
                        - bits_ket_down[orb1] * bits_ket_down[orb2])
                       * getERI(self, orb1, orb2, orb2, orb1)],
                (0 .. self.L - 1))],
    (0 .. self.L - 1))

\* The work array of GetMatrixElement: annih_up = work, creat_up = work + 2,
\* annih_down = work + 4, creat_down = work + 6; count[ slot ] is the counter of
\* sub-array slot, stores the pairs << slot , index in the sub-array >> written so far.
StartDifferences ==
  [ returned |-> FALSE,
    count    |-> [slot \in 0 .. 3 |-> 0],
    work     |-> [idx \in 0 .. 7 |-> Uninitialized],
    stores   |-> {} ]

\* DifferenceStore without the return 0.0 that precedes the store
DifferenceStoreUnchecked(d, bra_bit, ket_bit, annih_slot, creat_slot, orb) ==
  IF d.returned \/ bra_bit = ket_bit THEN d
  ELSE LET slot == IF ket_bit # 0 THEN annih_slot ELSE creat_slot
           idx  == 2 * slot + d.count[slot]
       IN [ d EXCEPT !.work   = IF idx \in DOMAIN @ THEN [@ EXCEPT ![idx] = orb]
                                ELSE @ @@ (idx :> orb),
                     !.stores = @ \cup {<<slot, d.count[slot]>>},
                     !.count  = [@ EXCEPT ![slot] = @ + 1] ]

\* One if ( bits_bra[ orb ] != bits_ket[ orb ] ){ ... } of the loop over orb
DifferenceStore(d, bra_bit, ket_bit, annih_slot, creat_slot, orb) ==
  IF d.returned \/ bra_bit = ket_bit THEN d
  ELSE LET slot == IF ket_bit # 0 THEN annih_slot ELSE creat_slot
       IN IF d.count[slot] = 2
          THEN [d EXCEPT !.returned = TRUE]
          ELSE [ d EXCEPT !.work   = [@ EXCEPT ![2 * slot + d.count[slot]] = orb],
                          !.stores = @ \cup {<<slot, d.count[slot]>>},
                          !.count  = [@ EXCEPT ![slot] = @ + 1] ]

\* The loop over orb that finds the differences between bra and ket
RECURSIVE DifferenceLoop(_, _, _, _, _, _, _)
DifferenceLoop(self, d, bits_bra_up, bits_bra_down, bits_ket_up, bits_ket_down, orb) ==
  IF orb >= self.L THEN d
  ELSE LET up   == DifferenceStore(d, bits_bra_up[orb], bits_ket_up[orb], 0, 1, orb)
           both == DifferenceStore(up, bits_bra_down[orb], bits_ket_down[orb], 2, 3, orb)
       IN DifferenceLoop(self, both, bits_bra_up, bits_bra_down, bits_ket_up, bits_ket_down,
                         orb + 1)

\* phase after for ( orbital = from + 1 ; orbital < to ; orbital++ ) if ( bits[ orbital ] ) phase *= -1
RECURSIVE PhaseBetween(_, _, _)
PhaseBetween(bits, from, to) ==
  IF from + 1 >= to THEN 1
  ELSE (IF bits[to - 1] # 0 THEN -1 ELSE 1) * PhaseBetween(bits, from, to - 1)

\* The branch |bra> = a^+_j a_l |ket> within one spin channel (bits_ket_same: that channel)
SingleExcitation(self, orbj, orbl, bits_ket_same, bits_ket_up, bits_ket_down) ==
  ( getGmat(self, orbj, orbl)
    + SumFcn([orb1 \in (0 .. self.L - 1) |->
                getERI(self, orbj, orb1, orb1, orbl) * (1 - 2 * bits_ket_same[orb1])
                + 2 * getERI(self, orb1, orb1, orbj, orbl)
                    * (bits_ket_up[orb1] + bits_ket_down[orb1])],
             (0 .. self.L - 1)) )
  * PhaseBetween(bits_ket_same, orbj, orbl) * PhaseBetween(bits_ket_same, orbl, orbj)

\* The branch with two annihilators and two creators in one spin channel
DoubleExcitation(self, orbi, orbj, orbk, orbl, bits_bra_same, bits_ket_same) ==
  2 * (getERI(self, orbi, orbk, orbj, orbl) - getERI(self, orbi, orbl, orbj, orbk))
    * PhaseBetween(bits_ket_same, orbk, orbl) * PhaseBetween(bits_bra_same, orbi, orbj)

\* The branch with one annihilator and one creator in each spin channel
MixedExcitation(self, orbi, orbj, orbk, orbl, bits_ket_up, bits_ket_down) ==
  2 * getERI(self, orbi, orbk, orbj, orbl)
    * PhaseBetween(bits_ket_up, orbi, orbk) * PhaseBetween(bits_ket_up, orbk, orbi)
    * PhaseBetween(bits_ket_down, orbj, orbl) * PhaseBetween(bits_ket_down, orbl, orbj)

\* GetMatrixElement( bits_bra_up , bits_bra_down , bits_ket_up , bits_ket_down , work ):
\* the value returned and the stores made in work.
GetMatrixElement(self, bits_bra_up, bits_bra_down, bits_ket_up, bits_ket_down) ==
  LET d == DifferenceLoop(self, StartDifferences, bits_bra_up, bits_bra_down,
                          bits_ket_up, bits_ket_down, 0)
      count_annih_up   == d.count[0]
      count_creat_up   == d.count[1]
      count_annih_down == d.count[2]
      count_creat_down == d.count[3]
      annih_up(k)   == d.work[k]
      creat_up(k)   == d.work[2 + k]
      annih_down(k) == d.work[4 + k]
      creat_down(k) == d.work[6 + k]
      result ==
        IF d.returned THEN 0
        ELSE IF count_annih_up # count_creat_up THEN 0
        ELSE IF count_annih_down # count_creat_down THEN 0
        ELSE IF count_annih_up + count_annih_down > 2 THEN 0
        ELSE IF count_creat_up + count_creat_down > 2 THEN 0
        ELSE IF count_annih_up = 0 /\ count_annih_down = 0
             THEN DiagHamCopy(self, bits_ket_up, bits_ket_down)
        ELSE IF count_annih_up = 1 /\ count_annih_down = 0
             THEN SingleExcitation(self, creat_up(0), annih_up(0), bits_ket_up,
                                   bits_ket_up, bits_ket_down)
        ELSE IF count_annih_up = 0 /\ count_annih_down = 1
             THEN SingleExcitation(self, creat_down(0), annih_down(0), bits_ket_down,
                                   bits_ket_up, bits_ket_down)
        ELSE IF count_annih_up = 2 /\ count_annih_down = 0
             THEN DoubleExcitation(self, creat_up(0), creat_up(1), annih_up(0), annih_up(1),
                                   bits_bra_up, bits_ket_up)
        ELSE IF count_annih_up = 0 /\ count_annih_down = 2
             THEN DoubleExcitation(self, creat_down(0), creat_down(1), annih_down(0),
                                   annih_down(1), bits_bra_down, bits_ket_down)
        ELSE IF count_annih_up = 1 /\ count_annih_down = 1
             THEN MixedExcitation(self, creat_up(0), creat_down(0), annih_up(0),
                                  annih_down(0), bits_ket_up, bits_ket_down)
        ELSE 0
  IN [result |-> result, stores |-> d.stores, returned_in_loop |-> d.returned]

(***************************************************************************)
(* The instances of the model.                                             *)
(***************************************************************************)
GroupSizes == {1, 2, 4}

\* The integral providers with L orbitals: orbital orb has irrep (mult * orb) % NumIrreps.
Hamiltonians(Lset, seeds) ==
  { [ L |-> Lval, NumIrreps |-> n, seed |-> sd,
      irreps |-> [orb \in 0 .. Lval - 1 |-> (mult * orb) % n] ] :
      <<Lval, n, mult, sd>> \in
        { q \in Lset \X GroupSizes \X (0 .. MaxMult) \X seeds : q[3] < q[2] } }

\* A working memory (in bytes) that never clamps the working buffers.
AmpleMemory == 1000000

\* Budgets in bytes that clamp the working buffers, and the verbosity levels.
SmallBudget == 16
MediumBudget == 100
LargeBudget == 200
Budgets == {SmallBudget, MediumBudget, LargeBudget}
MaxVerbose == 2
Verbosities == 0 .. MaxVerbose

ConstructorArgs(Hams, verbosities, budgets) ==
  { [ Ham |-> h, theNel_up |-> nu, theNel_down |-> nd, TargetIrrep_in |-> t,
      maxMemWorkMB_in |-> m, FCIverbose_in |-> v ] :
      <<h, nu, nd, t, m, v>> \in
        { q \in Hams \X (0 .. MaxL) \X (0 .. MaxL) \X (0 .. 3) \X budgets \X verbosities :
            /\ q[2] <= q[1].L
            /\ q[3] <= q[1].L
            /\ q[4] < q[1].NumIrreps } }

\* The larger instances of the dense-matrix check: up to MaxLDense orbitals, in groups of
\* 1 or 2 irreps, with at most MaxDets products of an up and a down string.
MaxLDense == 4
MaxDets == 36

RECURSIVE Binomial(_, _)
Binomial(n, k) ==
  IF k = 0 THEN 1 ELSE IF k > n THEN 0 ELSE (Binomial(n - 1, k - 1) * n) \div k

DenseArgs ==
  { [ Ham |-> h, theNel_up |-> nu, theNel_down |-> nd, TargetIrrep_in |-> t,
      maxMemWorkMB_in |-> AmpleMemory, FCIverbose_in |-> 0 ] :
      <<h, nu, nd, t>> \in
        { q \in Hamiltonians(MaxL + 1 .. MaxLDense, {1}) \X (0 .. MaxLDense)
                  \X (0 .. MaxLDense) \X (0 .. 1) :
            /\ q[1].NumIrreps <= 2
            /\ q[2] <= q[1].L
            /\ q[3] <= q[1].L
            /\ q[4] < q[1].NumIrreps
            /\ Binomial(q[1].L, q[2]) * Binomial(q[1].L, q[3]) <= MaxDets } }

NoCall == [op |-> "none"]
NoInstance == [L |-> 0]

InitWith(argset) ==
  /\ pc = "new"
  /\ args \in argset
  /\ fci = NoInstance
  /\ call = NoCall

\* FCI::FCI, when its asserts pass.
Construct ==
  /\ pc = "new"
  /\ ConstructorAsserts(args.Ham, args.theNel_up, args.theNel_down, args.maxMemWorkMB_in)
  /\ fci' = FCI(args.Ham, args.theNel_up, args.theNel_down, args.TargetIrrep_in,
                args.maxMemWorkMB_in, args.FCIverbose_in)
  /\ pc' = "ready"
  /\ UNCHANGED <<args, call>>

\* FCI::getBitsOfCounter( irrep_center , counter , bits_up , bits_down ) and the
\* FCI::getUpIrrepOfCounter( irrep_center , counter ) it starts with.
CallGetBitsOfCounter ==
  /\ pc = "ready"
  /\ call = NoCall
  /\ \E irrep_center \in 0 .. fci.NumIrreps - 1 :
       \E counter \in 0 .. getVecLength(fci, irrep_center) - 1 :
         call' = [ op |-> "getBitsOfCounter", irrep_center |-> irrep_center, counter |-> counter,
                   irrep_up |-> getUpIrrepOfCounter(fci, irrep_center, counter),
                   bits |-> getBitsOfCounter(fci, irrep_center, counter) ]
  /\ UNCHANGED <<pc, args, fci>>

\* The vector that holds k + 1 at index k.
RampVector(length) == [k \in 0 .. length - 1 |-> k + 1]

\* FCI::getFCIcoeff( bits_up , bits_down , vector ) on the ramp vector.  A read at or
\* beyond the length of the vector is a read outside the caller's buffer.
CallGetFCIcoeff ==
  /\ pc = "ready"
  /\ call = NoCall
  /\ \E bits_up \in [0 .. fci.L - 1 -> {0, 1}], bits_down \in [0 .. fci.L - 1 -> {0, 1}] :
       LET vector == RampVector(getVecLength(fci, 0))
           index  == FCIcoeffIndex(fci, bits_up, bits_down)
       IN call' = [ op |-> "getFCIcoeff", bits_up |-> bits_up, bits_down |-> bits_down,
                    index |-> index,
                    outside |-> index >= getVecLength(fci, 0),
                    result |-> IF index = -1 THEN 0
                               ELSE IF index < getVecLength(fci, 0) THEN vector[index]
                               ELSE Uninitialized ]
  /\ UNCHANGED <<pc, args, fci>>

\* The caller is done with what the last call returned.
\* The input vectors of the calls: the unit vectors and the ramp vector.
UnitVector(length, k) == [cnt \in 0 .. length - 1 |-> IF cnt = k THEN 1 ELSE 0]
InputVectors(length) ==
  {Filled(UnitVector(length, k)) : k \in 0 .. length - 1} \cup {Filled(RampVector(length))}

\* FCI::HamTimesVec( input , output ).  After a trap there is no output.
CallHamTimesVec ==
  /\ pc = "ready"
  /\ call = NoCall
  /\ \E input \in InputVectors(getVecLength(fci, 0)) :
       \E division \in (IF DividesByZero(fci) THEN DivisionByZeroOutcomes ELSE {"defined"}) :
         call' = [ op |-> "HamTimesVec", input |-> input, division |-> division,
                   output |-> IF division = "trap" THEN Filled(ClearVector(0))
                              ELSE HamTimesVec(fci, input) ]
  /\ UNCHANGED <<pc, args, fci>>

\* The second input vector of apply_excitation: ( k + 1 )^2 at index k.
SquaresVector(length) == [k \in 0 .. length - 1 |-> (k + 1) * (k + 1)]

\* FCI::apply_excitation( orig_vector , result_vector , crea , anni , orig_target_irrep )
CallApplyExcitation ==
  /\ pc = "ready"
  /\ call = NoCall
  /\ fci.L <= MaxL
  /\ \E crea, anni \in 0 .. fci.L - 1 : \E orig_target_irrep \in 0 .. fci.NumIrreps - 1 :
       LET orig_length ==
             getVecLength(fci, getIrrepProduct(fci.TargetIrrep, orig_target_irrep))
       IN \E orig_vector \in {Filled(RampVector(orig_length)),
                              Filled(SquaresVector(orig_length))} :
            call' = [ op |-> "apply_excitation", orig_vector |-> orig_vector,
                      crea |-> crea, anni |-> anni, orig_target_irrep |-> orig_target_irrep ]
                    @@ apply_excitation(fci, orig_vector, crea, anni, orig_target_irrep)
  /\ UNCHANGED <<pc, args, fci>>

\* FCI::CheckHamDEBUG, to the end of "Building Ham by getMatrixElement": the dense
\* matrix HamHXV whose column count is HamTimesVec of unit vector count, the diagonal
\* of DiagHam, and GetMatrixElement for every row and column.
CheckHamDEBUG ==
  /\ pc = "ready"
  /\ call = NoCall
  /\ LET vecLength == getVecLength(fci, 0)
     IN \E columns \in {Filled([count \in 0 .. vecLength - 1 |->
                                 HamTimesVec(fci, Filled(UnitVector(vecLength, count)))])} :
          call' = [ op |-> "CheckHamDEBUG",
                    vecLength |-> vecLength,
                    divided_by_zero |-> vecLength > 0 /\ DividesByZero(fci),
                    HamHXV |-> Filled([idx \in 0 .. vecLength * vecLength - 1 |->
                                         columns[idx \div vecLength][idx % vecLength]]),
                    diag |-> DiagHam(fci),
                    HamMXELEM |->
                      Filled([idx \in 0 .. vecLength * vecLength - 1 |->
                                LET bra == getBitsOfCounter(fci, 0, idx % vecLength)
                                    ket == getBitsOfCounter(fci, 0, idx \div vecLength)
                                IN GetMatrixElement(fci, bra.bits_up, bra.bits_down,
                                                    ket.bits_up, ket.bits_down)]) ]
  /\ UNCHANGED <<pc, args, fci>>

\* FCI::GetMatrixElement on any four bit patterns.  The function reads L, Gmat and ERI
\* only, so the instance without electrons stands for all instances of its Hamiltonian.
CallGetMatrixElement ==
  /\ pc = "ready"
  /\ call = NoCall
  /\ fci.L <= MaxL
  /\ fci.Nel_up = 0 /\ fci.Nel_down = 0 /\ fci.TargetIrrep = 0
  /\ \E bits_bra_up, bits_bra_down, bits_ket_up, bits_ket_down \in [0 .. fci.L - 1 -> {0, 1}] :
       call' = [ op |-> "GetMatrixElement",
                 bits_bra_up |-> bits_bra_up, bits_bra_down |-> bits_bra_down,
                 bits_ket_up |-> bits_ket_up, bits_ket_down |-> bits_ket_down ]
               @@ GetMatrixElement(fci, bits_bra_up, bits_bra_down, bits_ket_up, bits_ket_down)
  /\ UNCHANGED <<pc, args, fci>>

Return ==
  /\ call # NoCall
  /\ call' = NoCall
  /\ UNCHANGED <<pc, args, fci>>

Init == InitWith(ConstructorArgs(Hamiltonians(1 .. MaxL, {1}), {0}, {AmpleMemory}))

Next ==
  \/ Construct
  \/ CallGetBitsOfCounter
  \/ CallGetFCIcoeff
  \/ Return

Spec == Init /\ [][Next]_vars

\* The instances built with a memory budget, at every verbosity, and their HamTimesVec.
InitMem == InitWith(ConstructorArgs(Hamiltonians(1 .. MaxL, {1}), Verbosities, Budgets))

NextMem ==
  \/ Construct
  \/ CallHamTimesVec
  \/ Return

SpecMem == InitMem /\ [][NextMem]_vars

\* The instances with ample memory, the larger ones included, and the operations that
\* act with an excitation or with the Hamiltonian.
InitHam ==
  InitWith(ConstructorArgs(Hamiltonians(1 .. MaxL, 1 .. NumSeeds), {0}, {AmpleMemory})
             \cup DenseArgs)

NextHam ==
  \/ Construct
  \/ CallApplyExcitation
  \/ CheckHamDEBUG
  \/ CallGetMatrixElement
  \/ Return

SpecHam == InitHam /\ [][NextHam]_vars

(***************************************************************************)
(* Two calls of HamTimesVec that run at the same time on one instance,     *)
(* each with its own input and output vector.  HXVworksmall, HXVworkbig1   *)
(* and HXVworkbig2 are members of the instance, allocated by               *)
(* StartupIrrepCenter, and both calls use them.  A call advances by one    *)
(* block of HamTimesVec at a time: the parallel loop that fills            *)
(* HXVworkbig1, the one-body terms, the dgemm_ that fills HXVworkbig2, and *)
(* the scatter loops.  The buffers are kept with the calls, in call.       *)
(***************************************************************************)
MaxLPair == 2
Threads == 1 .. 2

\* The first center irrep from irrep_center on whose loop over the iterations has a body
\* to run, NumIrreps when there is none.
RECURSIVE FirstCenter(_, _)
FirstCenter(self, irrep_center) ==
  IF irrep_center >= self.NumIrreps THEN self.NumIrreps
  ELSE IF NumIterations(self, irrep_center) > 0 THEN irrep_center
  ELSE FirstCenter(self, irrep_center + 1)

\* Where a call stands when it enters the chunk `iteration` of irrep_center.
AtChunk(self, th, irrep_center, iteration) ==
  IF irrep_center >= self.NumIrreps
  THEN [th EXCEPT !.step = "done", !.irrep_center = self.NumIrreps, !.iteration = 0]
  ELSE [th EXCEPT !.step = "gather", !.irrep_center = irrep_center, !.iteration = iteration]

\* Where a call stands after the scatter loops of a chunk.
AfterChunk(self, th) ==
  IF th.iteration + 1 < NumIterations(self, th.irrep_center)
  THEN AtChunk(self, th, th.irrep_center, th.iteration + 1)
  ELSE AtChunk(self, th, FirstCenter(self, th.irrep_center + 1), 0)

\* The locations << buffer , index >> of a buffer below a length.
BufferLocations(buffer, length) == {<<buffer, idx>> : idx \in 0 .. length - 1}

\* loopsize of the chunk a call is in.
Loopsize(self, th) ==
  LET range == ChunkRange(self, th.irrep_center, th.iteration)
  IN self.irrep_center_num[th.irrep_center] * (range[2] - range[1])

\* HXVworksmall = new double[ L * L * L * L ], HXVworkbig1 and HXVworkbig2
\* = new double[ HXVsizeWorkspace ]: uninitialised.
NewBuffers(self) ==
  [ HXVworksmall |-> [idx \in 0 .. self.L * self.L * self.L * self.L - 1 |-> Uninitialized],
    HXVworkbig1  |-> [idx \in 0 .. self.HXVsizeWorkspace - 1 |-> Uninitialized],
    HXVworkbig2  |-> [idx \in 0 .. self.HXVsizeWorkspace - 1 |-> Uninitialized] ]

\* Both calls enter HamTimesVec: ClearVector( getVecLength( 0 ) , output ).
StartHamTimesVecPair ==
  /\ pc = "ready"
  /\ call = NoCall
  /\ getVecLength(fci, 0) >= 1
  /\ ~DividesByZero(fci)
  /\ \E k \in 0 .. getVecLength(fci, 0) - 1 :
       LET inputs == <<Filled(UnitVector(getVecLength(fci, 0), k)),
                       Filled(RampVector(getVecLength(fci, 0)))>>
       IN call' = [ op |-> "HamTimesVec x 2",
                    thread |-> [t \in Threads |->
                                  AtChunk(fci, [ input |-> inputs[t],
                                                 output |-> Filled(ClearVector(getVecLength(fci, 0))),
                                                 irrep_center |-> 0, iteration |-> 0,
                                                 step |-> "gather", touched |-> {} ],
                                          FirstCenter(fci, 0), 0)] ]
                  @@ NewBuffers(fci)
  /\ UNCHANGED <<pc, args, fci>>

\* The first parallel loop of a chunk: HXVworkbig1[ loopvariable ] = myResult.
GatherStep(t) ==
  /\ call.op = "HamTimesVec x 2"
  /\ call.thread[t].step = "gather"
  /\ LET th    == call.thread[t]
         range == ChunkRange(fci, th.irrep_center, th.iteration)
     IN \E workbig1 \in {Workbig1(fci, th.irrep_center, th.input, range[1], range[2])} :
          call' = [call EXCEPT
            !.HXVworkbig1 = Filled([idx \in DOMAIN @ |->
                                      IF idx \in DOMAIN workbig1 THEN workbig1[idx] ELSE @[idx]]),
            !.thread[t].step = IF th.irrep_center = 0 THEN "one_body" ELSE "two_body",
            !.thread[t].touched = @ \cup BufferLocations("HXVworkbig1", Loopsize(fci, th))]
  /\ UNCHANGED <<pc, args, fci>>

\* The one-body terms of a chunk of irrep_center 0: HXVworksmall[ pair ] = getGmat( ... )
\* and the dgemm_ of HXVworkbig1 with HXVworksmall into output.
OneBodyStep(t) ==
  /\ call.op = "HamTimesVec x 2"
  /\ call.thread[t].step = "one_body"
  /\ LET th       == call.thread[t]
         range    == ChunkRange(fci, th.irrep_center, th.iteration)
         numPairs == fci.irrep_center_num[0]
     IN call' = [call EXCEPT
          !.HXVworksmall = Filled([idx \in DOMAIN @ |->
                                     IF idx < numPairs
                                     THEN getGmat(fci, fci.irrep_center_crea_orb[0][idx],
                                                       fci.irrep_center_anni_orb[0][idx])
                                     ELSE @[idx]]),
          !.thread[t].output = Filled(OneBody(fci, th.output, call.HXVworkbig1,
                                              range[1], range[2])),
          !.thread[t].step = "two_body",
          !.thread[t].touched = @ \cup BufferLocations("HXVworksmall", numPairs)
                                  \cup BufferLocations("HXVworkbig1", Loopsize(fci, th))]
  /\ UNCHANGED <<pc, args, fci>>

\* HXVworksmall[ pair1 + numPairs * pair2 ] = 0.5 * getERI( ... ) and the dgemm_ of
\* HXVworksmall with HXVworkbig1 into HXVworkbig2.
TwoBodyStep(t) ==
  /\ call.op = "HamTimesVec x 2"
  /\ call.thread[t].step = "two_body"
  /\ LET th       == call.thread[t]
         range    == ChunkRange(fci, th.irrep_center, th.iteration)
         numPairs == fci.irrep_center_num[th.irrep_center]
         crea     == fci.irrep_center_crea_orb[th.irrep_center]
         anni     == fci.irrep_center_anni_orb[th.irrep_center]
     IN \E workbig2 \in {Workbig2(fci, th.irrep_center, call.HXVworkbig1, range[1], range[2])} :
          call' = [call EXCEPT
            !.HXVworksmall = Filled([idx \in DOMAIN @ |->
                                       IF idx < numPairs * numPairs
                                       THEN getERI(fci, crea[idx % numPairs], anni[idx % numPairs],
                                                        crea[idx \div numPairs],
                                                        anni[idx \div numPairs])
                                       ELSE @[idx]]),
            !.HXVworkbig2 = Filled([idx \in DOMAIN @ |->
                                      IF idx \in DOMAIN workbig2 THEN workbig2[idx] ELSE @[idx]]),
            !.thread[t].step = "scatter",
            !.thread[t].touched = @ \cup BufferLocations("HXVworksmall", numPairs * numPairs)
                                    \cup BufferLocations("HXVworkbig1", Loopsize(fci, th))
                                    \cup BufferLocations("HXVworkbig2", Loopsize(fci, th))]
  /\ UNCHANGED <<pc, args, fci>>

\* The scatter loops of a chunk: output[ location_new ] += sign * HXVworkbig2[ ... ].
ScatterStep(t) ==
  /\ call.op = "HamTimesVec x 2"
  /\ call.thread[t].step = "scatter"
  /\ LET th    == call.thread[t]
         range == ChunkRange(fci, th.irrep_center, th.iteration)
     IN \E output \in {Filled(ScatterPairs(fci, th.irrep_center, th.output, call.HXVworkbig2,
                                           0, 0, range))} :
          call' = [call EXCEPT
            !.thread[t] = AfterChunk(fci,
                            [th EXCEPT !.output = output,
                                       !.touched = @ \cup BufferLocations("HXVworkbig2",
                                                                          Loopsize(fci, th))])]
  /\ UNCHANGED <<pc, args, fci>>

\* Both calls have returned.
ReturnPair ==
  /\ call.op = "HamTimesVec x 2"
  /\ \A t \in Threads : call.thread[t].step = "done"
  /\ call' = NoCall
  /\ UNCHANGED <<pc, args, fci>>

InitPair == InitWith(ConstructorArgs(Hamiltonians(1 .. MaxLPair, {1}), {0}, {AmpleMemory}))

NextPair ==
  \/ Construct
  \/ StartHamTimesVecPair
  \/ \E t \in Threads : GatherStep(t)
  \/ \E t \in Threads : OneBodyStep(t)
  \/ \E t \in Threads : TwoBodyStep(t)
  \/ \E t \in Threads : ScatterStep(t)
  \/ ReturnPair

SpecPair == InitPair /\ [][NextPair]_vars

(***************************************************************************)
(* FCI::GSDavidson.  The Davidson solver is a collaborator outside this    *)
(* file: what FetchInstruction returns (the instruction and what the two   *)
(* pointers of whichpointers point to) is an input of every fetch.  A      *)
(* pointer is a record with null, and with data when it is not NULL.       *)
(***************************************************************************)
MaxLSolver == 2
MaxMultiplications == 2
MaxEigenvalue == 1

Instructions == {"A", "B", "C", "D"}

NullPointer == [null |-> TRUE]
PointerTo(vector) == [null |-> FALSE, data |-> vector]

\* FillRandom: every element is ( 2.0 * rand() ) / RAND_MAX - 1.0, a value from -1 to 1.
FillRandom(vecLength) ==
  { Filled([cnt \in 0 .. vecLength - 1 |-> v]) : v \in {-1, 1} }
    \cup { Filled([cnt \in 0 .. vecLength - 1 |-> IF cnt % 2 = 0 THEN 1 ELSE -1]) }

\* GSDavidson from its entry to the first FetchInstruction.
EnterGSDavidson(inoutput) ==
  [ op |-> "GSDavidson", status |-> "running", inoutput_in |-> inoutput,
    inoutput |-> inoutput, fetched |-> << >>, responses |-> << >>,
    energy |-> Uninitialized ]

\* The first fetched instruction and the answer to it: assert( instruction == 'A' ),
\* the initial vector in whichpointers[ 0 ], DiagHam in whichpointers[ 1 ].
GSDavidsonFirst(self, st, instruction, fill) ==
  IF instruction # "A"
  THEN [st EXCEPT !.status = "aborted", !.fetched = Append(@, instruction),
                  !.responses = Append(@, [did |-> "assert fails"])]
  ELSE [st EXCEPT !.fetched = Append(@, instruction),
                  !.responses =
                    Append(@, [ did |-> "initial vector and DiagHam",
                                vector |-> IF ~st.inoutput.null THEN st.inoutput.data ELSE fill,
                                diag |-> DiagHam(self) ])]

\* GSDavidsonNext that returns on every instruction other than 'B'
GSDavidsonNextNoAssert(self, st, instruction, solver_vector, solver_value) ==
  IF instruction = "B"
  THEN [st EXCEPT !.fetched = Append(@, instruction),
                  !.responses = Append(@, [ did |-> "HamTimesVec", input |-> solver_vector,
                                            output |-> HamTimesVec(self, solver_vector) ])]
  ELSE [st EXCEPT !.status = "returned", !.fetched = Append(@, instruction),
                  !.responses = Append(@, [ did |-> "return", eigenvector |-> solver_vector,
                                            eigenvalue |-> solver_value ]),
                  !.inoutput = IF ~st.inoutput.null THEN PointerTo(solver_vector) ELSE @,
                  !.energy = solver_value + self.Econstant]

\* A later fetched instruction and the answer to it: HamTimesVec( whichpointers[ 0 ] ,
\* whichpointers[ 1 ] ) in the loop, after the loop assert( instruction == 'C' ), the
\* copy to inoutput and the energy whichpointers[ 1 ][ 0 ] + getEconst().
GSDavidsonNext(self, st, instruction, solver_vector, solver_value) ==
  IF instruction = "B"
  THEN [st EXCEPT !.fetched = Append(@, instruction),
                  !.responses = Append(@, [ did |-> "HamTimesVec", input |-> solver_vector,
                                            output |-> HamTimesVec(self, solver_vector) ])]
  ELSE IF instruction # "C"
  THEN [st EXCEPT !.status = "aborted", !.fetched = Append(@, instruction),
                  !.responses = Append(@, [did |-> "assert fails"])]
  ELSE [st EXCEPT !.status = "returned", !.fetched = Append(@, instruction),
                  !.responses = Append(@, [ did |-> "return", eigenvector |-> solver_vector,
                                            eigenvalue |-> solver_value ]),
                  !.inoutput = IF ~st.inoutput.null THEN PointerTo(solver_vector) ELSE @,
                  !.energy = solver_value + self.Econstant]

\* The vectors the solver hands over in whichpointers[ 0 ].
SolverVectors(vecLength) ==
  { Filled(UnitVector(vecLength, k)) : k \in 0 .. vecLength - 1 }
    \cup { Filled(SquaresVector(vecLength)) }

CallGSDavidson ==
  /\ pc = "ready"
  /\ call = NoCall
  /\ getVecLength(fci, 0) >= 1
  /\ ~DividesByZero(fci)
  /\ \E inoutput \in {NullPointer, PointerTo(Filled(RampVector(getVecLength(fci, 0))))} :
       call' = EnterGSDavidson(inoutput)
  /\ UNCHANGED <<pc, args, fci>>

FetchFirstInstruction ==
  /\ call.op = "GSDavidson"
  /\ call.status = "running"
  /\ call.fetched = << >>
  /\ \E instruction \in Instructions : \E fill \in FillRandom(getVecLength(fci, 0)) :
       call' = GSDavidsonFirst(fci, call, instruction, fill)
  /\ UNCHANGED <<pc, args, fci>>

FetchNextInstruction ==
  /\ call.op = "GSDavidson"
  /\ call.status = "running"
  /\ call.fetched # << >>
  /\ \E instruction \in Instructions :
       /\ instruction = "B" => Len(call.fetched) <= MaxMultiplications
       /\ \E solver_vector \in SolverVectors(getVecLength(fci, 0)) :
            \E solver_value \in -MaxEigenvalue .. MaxEigenvalue :
              call' = GSDavidsonNext(fci, call, instruction, solver_vector, solver_value)
  /\ UNCHANGED <<pc, args, fci>>

\* GSDavidson has returned its energy; after a failed assert the process has ended.
ReturnGSDavidson ==
  /\ call.op = "GSDavidson"
  /\ call.status = "returned"
  /\ call' = NoCall
  /\ UNCHANGED <<pc, args, fci>>

InitSolver == InitWith(ConstructorArgs(Hamiltonians(1 .. MaxLSolver, {1}), {0}, {AmpleMemory}))

NextSolver ==
  \/ Construct
  \/ CallGSDavidson
  \/ FetchFirstInstruction
  \/ FetchNextInstruction
  \/ ReturnGSDavidson

SpecSolver == InitSolver /\ [][NextSolver]_vars

(***************************************************************************)
(* CGSolveSystem and CGCoreSolver.  The vectors of the conjugate gradient  *)
(* iteration are doubles that the model does not carry: what the model     *)
(* keeps of them is which of the caller's buffers have been written, and   *)
(* how residualNorm compares with CGRESIDUALTHRESHOLD each time the while  *)
(* condition reads it, which is an input of the step.                      *)
(***************************************************************************)
MaxLCG == 2
MaxEta == 1
CountKBits == 3

\* residualNorm = sqrt( rkT_rk ) against CGRESIDUALTHRESHOLD.
ResidualNorms == {"below threshold", "threshold or more", "NaN"}

\* while ( residualNorm >= CGRESIDUALTHRESHOLD ): a comparison with NaN is false.
WhileCondition(residualNorm) == residualNorm = "threshold or more"

\* EnterCGSolveSystem without assert( fabs( eta ) > 0.0 )
EnterCGSolveSystemNoEtaAssert(eta, RealSol, ImagSol, residualNorm) ==
  IF RealSol.null \/ ImagSol.null
  THEN [ op |-> "CGSolveSystem", status |-> "aborted", eta |-> eta, RealSol |-> RealSol,
         ImagSol |-> ImagSol, written |-> {}, solving |-> "none", count_k |-> 0,
         iterated |-> FALSE, residualNorm |-> "none" ]
  ELSE [ op |-> "CGSolveSystem", status |-> "running", eta |-> eta, RealSol |-> RealSol,
         ImagSol |-> ImagSol, written |-> {"ImagSol"}, solving |-> "ImagSol", count_k |-> 0,
         iterated |-> FALSE, residualNorm |-> residualNorm ]

\* CGSolveSystem from its entry to the first while test of the first CGCoreSolver:
\* the helper arrays and CGDiagPrecond, which write none of the caller's buffers,
\* the three asserts, the initial guess copied to ImagSol, and the start of
\* CGCoreSolver (count_k = 0, r_0, p_0, residualNorm).
EnterCGSolveSystem(eta, RealSol, ImagSol, residualNorm) ==
  IF RealSol.null \/ ImagSol.null \/ eta = 0
  THEN [ op |-> "CGSolveSystem", status |-> "aborted", eta |-> eta, RealSol |-> RealSol,
         ImagSol |-> ImagSol, written |-> {}, solving |-> "none", count_k |-> 0,
         iterated |-> FALSE, residualNorm |-> "none" ]
  ELSE [ op |-> "CGSolveSystem", status |-> "running", eta |-> eta, RealSol |-> RealSol,
         ImagSol |-> ImagSol, written |-> {"ImagSol"}, solving |-> "ImagSol", count_k |-> 0,
         iterated |-> FALSE, residualNorm |-> residualNorm ]

\* One pass of the while body of CGCoreSolver: Sol, RESID and PVEC are updated,
\* count_k++ (an int that no condition reads: the model keeps its low CountKBits
\* bits), and residualNorm is computed anew.
CGCoreSolverBody(st, residualNorm) ==
  [st EXCEPT !.written = @ \cup {st.solving},
             !.count_k = (@ + 1) % Pow2(CountKBits),
             !.iterated = TRUE,
             !.residualNorm = residualNorm]

\* CGCoreSolver returns to CGSolveSystem: after the solve for ImagSol, ImagSol is
\* scaled with precon, the initial guess is written to RealSol and the second
\* CGCoreSolver starts; after the solve for RealSol, RealSol is scaled and
\* CGSolveSystem returns.
CGCoreSolverDone(st, residualNorm) ==
  IF st.solving = "ImagSol"
  THEN [st EXCEPT !.written = @ \cup {"ImagSol", "RealSol"},
                  !.solving = "RealSol",
                  !.count_k = 0,
                  !.residualNorm = residualNorm]
  ELSE [st EXCEPT !.written = @ \cup {"RealSol"},
                  !.status = "returned",
                  !.solving = "none",
                  !.residualNorm = "none"]

CallCGSolveSystem ==
  /\ pc = "ready"
  /\ call = NoCall
  /\ \E eta \in -MaxEta .. MaxEta :
       \E RealSol, ImagSol \in {NullPointer, PointerTo(Filled(RampVector(getVecLength(fci, 0))))} :
         \E residualNorm \in ResidualNorms :
           call' = EnterCGSolveSystem(eta, RealSol, ImagSol, residualNorm)
  /\ UNCHANGED <<pc, args, fci>>

CGIteration ==
  /\ call.op = "CGSolveSystem"
  /\ call.status = "running"
  /\ WhileCondition(call.residualNorm)
  /\ \E residualNorm \in ResidualNorms : call' = CGCoreSolverBody(call, residualNorm)
  /\ UNCHANGED <<pc, args, fci>>

CGCoreSolverReturns ==
  /\ call.op = "CGSolveSystem"
  /\ call.status = "running"
  /\ ~WhileCondition(call.residualNorm)
  /\ \E residualNorm \in ResidualNorms : call' = CGCoreSolverDone(call, residualNorm)
  /\ UNCHANGED <<pc, args, fci>>

\* CGSolveSystem has returned; after a failed assert the process has ended.
ReturnCGSolveSystem ==
  /\ call.op = "CGSolveSystem"
  /\ call.status = "returned"
  /\ call' = NoCall
  /\ UNCHANGED <<pc, args, fci>>

InitCG == InitWith(ConstructorArgs(Hamiltonians(1 .. MaxLCG, {1}), {0}, {AmpleMemory}))

NextCG ==
  \/ Construct
  \/ CallCGSolveSystem
  \/ CGIteration
  \/ CGCoreSolverReturns
  \/ ReturnCGSolveSystem

SpecCG == InitCG /\ [][NextCG]_vars

\* The thread that runs CGSolveSystem keeps running: a step of the call that stays
\* possible is taken.
SpecCGFair ==
  /\ InitCG
  /\ [][NextCG]_vars
  /\ WF_vars(CGIteration)
  /\ WF_vars(CGCoreSolverReturns)

(***************************************************************************)
(* Calls with arguments outside their ranges: the constructor with more    *)
(* electrons than orbitals or without working memory, apply_excitation     *)
(* with an orbital index outside 0 .. L - 1.                               *)
(***************************************************************************)
MaxLErr == 2

\* Constructor arguments, valid or not: theNel_up and theNel_down are unsigned.
AnyConstructorArgs ==
  { [ Ham |-> h, theNel_up |-> nu, theNel_down |-> nd, TargetIrrep_in |-> t,
      maxMemWorkMB_in |-> m, FCIverbose_in |-> 0 ] :
      <<h, nu, nd, t, m>> \in
        { q \in Hamiltonians(1 .. MaxLErr, {1}) \X (0 .. MaxLErr + 1) \X (0 .. MaxLErr + 1)
                  \X (0 .. 3) \X {-1, 0, AmpleMemory} :
            /\ q[2] <= q[1].L + 1
            /\ q[3] <= q[1].L + 1
            /\ q[4] < q[1].NumIrreps } }

\* What the constructor has set when it reaches its asserts.
FCIBeforeAsserts(Ham, maxMemWorkMB_in, FCIverbose_in) ==
  [ FCIverbose |-> FCIverbose_in, maxMemWorkMB |-> maxMemWorkMB_in, L |-> Ham.L ]

\* FCI::FCI, when one of its asserts fails.
ConstructorAssertFails ==
  /\ pc = "new"
  /\ ~ConstructorAsserts(args.Ham, args.theNel_up, args.theNel_down, args.maxMemWorkMB_in)
  /\ fci' = FCIBeforeAsserts(args.Ham, args.maxMemWorkMB_in, args.FCIverbose_in)
  /\ pc' = "aborted"
  /\ UNCHANGED <<args, call>>

\* The elements of orb2irrep that the first statement of apply_excitation reads.
OrbitalIrrepReads(crea, anni) == {crea, anni}

\* What a read outside orb2irrep makes of the call: the read faults, or it yields
\* whatever lies next to the array and the call goes on with it.
OutsideReadOutcomes == {"fault", "goes on with the value read"}

\* FCI::apply_excitation with crea and anni from -1 to L.
CallApplyExcitationAnyOrbital ==
  /\ pc = "ready"
  /\ call = NoCall
  /\ \E crea, anni \in -1 .. fci.L : \E orig_target_irrep \in 0 .. fci.NumIrreps - 1 :
       LET outside == OrbitalIrrepReads(crea, anni) \ DOMAIN fci.orb2irrep
           entry   == [ op |-> "apply_excitation", crea |-> crea, anni |-> anni,
                        orig_target_irrep |-> orig_target_irrep,
                        orb2irrep_reads |-> OrbitalIrrepReads(crea, anni),
                        outside |-> outside ]
       IN IF outside = {}
          THEN LET orig_length ==
                     getVecLength(fci, getIrrepProduct(fci.TargetIrrep, orig_target_irrep))
                   orig_vector == Filled(RampVector(orig_length))
               IN call' = [status |-> "returned", orig_vector |-> orig_vector] @@ entry
                            @@ apply_excitation(fci, orig_vector, crea, anni, orig_target_irrep)
          ELSE \E outcome \in OutsideReadOutcomes : call' = [status |-> outcome] @@ entry
  /\ UNCHANGED <<pc, args, fci>>

(***************************************************************************)
(* FCI::ActWithSecondQuantizedOperator, with the otherFCI->getFCIcoeff it  *)
(* calls.  Both instances are built on the same Hamiltonian, or on         *)
(* Hamiltonians with different numbers of orbitals.                        *)
(***************************************************************************)
\* FCI::getFCIcoeff: 0.0 when one of the counters is -1, else the element of vector.
getFCIcoeff(self, bits_up, bits_down, vector) ==
  LET index == FCIcoeffIndex(self, bits_up, bits_down)
  IN IF index = -1 THEN 0
     ELSE IF index \in DOMAIN vector THEN vector[index]
     ELSE Uninitialized

\* The phase without the factors of the occupied orbitals below orbIndex
OperatorPhaseAtStart(startphase, bits, orbIndex) == startphase

\* phase *= -1 for every occupied orbital below orbIndex.
OperatorPhase(startphase, bits, orbIndex) ==
  IF Cardinality({cnt \in 0 .. orbIndex - 1 : bits[cnt] = 1}) % 2 = 0
  THEN startphase ELSE -startphase

\* thisVector[ counter ] in the loop of the operator and spin at hand.
OperatorElement(self, whichOperator, isUp, orbIndex, otherFCI, otherVector, counter) ==
  LET bits       == getBitsOfCounter(self, 0, counter)
      mine       == IF isUp THEN bits.bits_up ELSE bits.bits_down
      found      == IF whichOperator = "C" THEN 1 ELSE 0
      changed    == [mine EXCEPT ![orbIndex] = 1 - found]
      startphase == IF isUp \/ self.Nel_up % 2 = 0 THEN 1 ELSE -1
  IN IF mine[orbIndex] = found
     THEN OperatorPhase(startphase, changed, orbIndex)
            * getFCIcoeff(otherFCI, IF isUp THEN changed ELSE bits.bits_up,
                          IF isUp THEN bits.bits_down ELSE changed, otherVector)
     ELSE 0

\* ActWithSecondQuantizedOperator without the test of the target irreps
ActWithSecondQuantizedOperatorNoIrrepTest(self, whichOperator, isUp, orbIndex, thisVector, otherFCI, otherVector) ==
  IF whichOperator \notin {"C", "A"} \/ ~(orbIndex < self.L) \/ self.L # otherFCI.L
  THEN [status |-> "aborted", thisVector |-> thisVector]
  ELSE [ status |-> "returned",
         thisVector |-> Filled([counter \in 0 .. getVecLength(self, 0) - 1 |->
                                  OperatorElement(self, whichOperator, isUp, orbIndex,
                                                  otherFCI, otherVector, counter)]) ]

ActWithSecondQuantizedOperator(self, whichOperator, isUp, orbIndex, thisVector, otherFCI, otherVector) ==
  IF whichOperator \notin {"C", "A"} \/ ~(orbIndex < self.L) \/ self.L # otherFCI.L
  THEN [status |-> "aborted", thisVector |-> thisVector]
  ELSE IF self.TargetIrrep
            # getIrrepProduct(otherFCI.TargetIrrep, getOrb2Irrep(self, orbIndex))
  THEN [status |-> "returned", thisVector |-> Filled(ClearVector(getVecLength(self, 0)))]
  ELSE [ status |-> "returned",
         thisVector |-> Filled([counter \in 0 .. getVecLength(self, 0) - 1 |->
                                  OperatorElement(self, whichOperator, isUp, orbIndex,
                                                  otherFCI, otherVector, counter)]) ]

\* The characters passed as whichOperator: creator, annihilator, and one that is neither.
Operators == {"C", "A", "N"}

\* The arguments of the instances that are passed as otherFCI.
OtherArgs(mine) ==
  { a \in ConstructorArgs(Hamiltonians(1 .. MaxLErr, {1}), {0}, {AmpleMemory}) :
      \/ a.Ham = mine.Ham
      \/ /\ a.Ham.L # mine.Ham.L
         /\ a.Ham.NumIrreps = 1
         /\ a.theNel_up = 0
         /\ a.theNel_down = 0 }

CallActWithSecondQuantizedOperator ==
  /\ pc = "ready"
  /\ call = NoCall
  /\ \E other \in OtherArgs(args) :
       \E otherFCI \in {FCI(other.Ham, other.theNel_up, other.theNel_down,
                            other.TargetIrrep_in, other.maxMemWorkMB_in,
                            other.FCIverbose_in)} :
         \E whichOperator \in Operators : \E isUp \in BOOLEAN : \E orbIndex \in 0 .. fci.L :
           LET thisVector  == Filled(SquaresVector(getVecLength(fci, 0)))
               otherVector == Filled(RampVector(getVecLength(otherFCI, 0)))
           IN call' = [ op |-> "ActWithSecondQuantizedOperator",
                        whichOperator |-> whichOperator, isUp |-> isUp,
                        orbIndex |-> orbIndex, thisVector_in |-> thisVector,
                        other |-> [ L |-> otherFCI.L, Nel_up |-> otherFCI.Nel_up,
                                    Nel_down |-> otherFCI.Nel_down,
                                    TargetIrrep |-> otherFCI.TargetIrrep ],
                        otherVector |-> otherVector ]
                      @@ ActWithSecondQuantizedOperator(fci, whichOperator, isUp, orbIndex,
                                                        thisVector, otherFCI, otherVector)
  /\ UNCHANGED <<pc, args, fci>>

InitErr == InitWith(AnyConstructorArgs)

NextErr ==
  \/ Construct
  \/ ConstructorAssertFails
  \/ CallApplyExcitationAnyOrbital
  \/ CallActWithSecondQuantizedOperator
  \/ Return

SpecErr == InitErr /\ [][NextErr]_vars

(***************************************************************************)
(* FCI::Fill2RDM.  two_rdm[ i + L * ( j + L * ( k + L * l ) ) ] holds      *)
(* Gamma_{ijkl}; the energy is kept as 2 * ( Nel_up + Nel_down - 1 ) times *)
(* FCIenergy, which is an integer.                                         *)
(***************************************************************************)
MaxLRDM == 3

FCIddot(vecLength, vec1, vec2) ==
  SumFcn([cnt \in 0 .. vecLength - 1 |-> ReadVector(vec1, cnt) * ReadVector(vec2, cnt)],
         0 .. vecLength - 1)

\* The result_vector of apply_excitation.
Excited(self, orig_vector, crea, anni, orig_target_irrep) ==
  apply_excitation(self, orig_vector, crea, anni, orig_target_irrep).result_vector

\* The pairs ( crea1 , anni1 ) of the two outer loops.
OuterPairs(self) == {p \in (0 .. self.L - 1) \X (0 .. self.L - 1) : p[1] >= p[2]}

\* workspace1 after apply_excitation( vector, workspace1, crea1, anni1, TargetIrrep ),
\* for every pair of the outer loops.
FirstExcitations(self, vector) ==
  [p \in OuterPairs(self) |-> Excited(self, vector, p[1], p[2], self.TargetIrrep)]

\* two_rdm at the end of the loop over irrep_center1.
Fill2RDMDirect(self, vector, workspace1) ==
  LET L0      == self.L
      length2 == getVecLength(self, 0)
  IN [idx \in 0 .. L0 * L0 * L0 * L0 - 1 |->
        LET crea2 == idx % L0
            crea1 == (idx \div L0) % L0
            anni2 == (idx \div (L0 * L0)) % L0
            anni1 == idx \div (L0 * L0 * L0)
            irrep_prod1   == getIrrepProduct(getOrb2Irrep(self, crea1), getOrb2Irrep(self, anni1))
            irrep_prod2   == getIrrepProduct(getOrb2Irrep(self, crea2), getOrb2Irrep(self, anni2))
            target_irrep1 == getIrrepProduct(self.TargetIrrep, irrep_prod1)
        IN (IF crea1 >= anni1 /\ crea2 >= anni1 /\ anni2 >= anni1 /\ irrep_prod2 = irrep_prod1
            THEN FCIddot(length2, Excited(self, workspace1[<<crea1, anni1>>], crea2, anni2,
                                          target_irrep1), vector)
            ELSE 0)
           - (IF /\ crea1 = anni2
                 /\ crea2 >= anni1
                 /\ crea1 >= anni1
                 /\ getOrb2Irrep(self, crea2) = getOrb2Irrep(self, anni1)
              THEN FCIddot(length2, workspace1[<<crea2, anni1>>], vector)
              ELSE 0)]

\* Symmetrize2RDMPass without the assignment to [ anni1 , anni2 , crea1 , crea2 ]
Symmetrize2RDMPassNoReverse(self, two_rdm, n) ==
  LET L0    == self.L
      anni2 == n % L0
      crea2 == (n \div L0) % L0
      crea1 == (n \div (L0 * L0)) % L0
      anni1 == n \div (L0 * L0 * L0)
      value == two_rdm[crea2 + L0 * (crea1 + L0 * (anni2 + L0 * anni1))]
  IN IF /\ crea1 >= anni1 /\ crea2 >= anni1 /\ anni2 >= anni1
        /\ getIrrepProduct(getOrb2Irrep(self, crea2), getOrb2Irrep(self, anni2))
             = getIrrepProduct(getOrb2Irrep(self, crea1), getOrb2Irrep(self, anni1))
     THEN [two_rdm EXCEPT
             ![crea1 + L0 * (crea2 + L0 * (anni1 + L0 * anni2))] = value,
             ![anni2 + L0 * (anni1 + L0 * (crea2 + L0 * crea1))] = value]
     ELSE two_rdm

\* Pass number n of the second loop nest of Fill2RDM, the passes counted in the order
\* of the loops over anni1, crea1, crea2 and anni2 (each from 0 here: a pass that the
\* loop bounds leave out changes nothing).
Symmetrize2RDMPass(self, two_rdm, n) ==
  LET L0    == self.L
      anni2 == n % L0
      crea2 == (n \div L0) % L0
      crea1 == (n \div (L0 * L0)) % L0
      anni1 == n \div (L0 * L0 * L0)
      value == two_rdm[crea2 + L0 * (crea1 + L0 * (anni2 + L0 * anni1))]
  IN IF /\ crea1 >= anni1 /\ crea2 >= anni1 /\ anni2 >= anni1
        /\ getIrrepProduct(getOrb2Irrep(self, crea2), getOrb2Irrep(self, anni2))
             = getIrrepProduct(getOrb2Irrep(self, crea1), getOrb2Irrep(self, anni1))
     THEN [two_rdm EXCEPT
             ![crea1 + L0 * (crea2 + L0 * (anni1 + L0 * anni2))] = value,
             ![anni2 + L0 * (anni1 + L0 * (crea2 + L0 * crea1))] = value,
             ![anni1 + L0 * (anni2 + L0 * (crea1 + L0 * crea2))] = value]
     ELSE two_rdm

\* The passes first .. last of the second loop nest, one after the other.
RECURSIVE Symmetrize2RDM(_, _, _, _)
Symmetrize2RDM(self, two_rdm, first, last) ==
  IF first > last THEN two_rdm
  ELSE IF first = last THEN Symmetrize2RDMPass(self, two_rdm, first)
  ELSE LET middle == (first + last) \div 2
           half   == Symmetrize2RDM(self, two_rdm, first, middle)
       IN InOrder(half, Symmetrize2RDM(self, half, middle + 1, last))

\* 2 * ( Nel_up + Nel_down - 1 ) * FCIenergy.
Fill2RDMEnergy(self, two_rdm) ==
  LET L0   == self.L
      orbs == 0 .. L0 - 1
      Nm1  == self.Nel_up + self.Nel_down - 1
      pair(orb1, orb2) ==
        LET tempvar  == SumFcn([orb3 \in orbs |-> getERI(self, orb1, orb3, orb3, orb2)], orbs)
            tempvar2 == SumFcn([orb3 \in orbs |->
                                  two_rdm[orb1 + L0 * (orb3 + L0 * (orb2 + L0 * orb3))]], orbs)
            quartic  == SumFcn([q \in orbs \X orbs |->
                                  two_rdm[orb1 + L0 * (orb2 + L0 * (q[1] + L0 * q[2]))]
                                    * getERI(self, orb1, q[1], orb2, q[2])], orbs \X orbs)
        IN Nm1 * quartic + (getGmat(self, orb1, orb2) + tempvar) * tempvar2
  IN 2 * Nm1 * self.Econstant
       + SumFcn([p \in orbs \X orbs |-> pair(p[1], p[2])], orbs \X orbs)

\* The vectors passed to Fill2RDM and Fill3RDM.
RDMVectors(vecLength) ==
  {Filled(RampVector(vecLength)), Filled(SquaresVector(vecLength))}

CallFill2RDM ==
  /\ pc = "ready"
  /\ call = NoCall
  /\ IF fci.Nel_up + fci.Nel_down >= 2
     THEN \E vector \in RDMVectors(getVecLength(fci, 0)) :
            \E workspace1 \in {Filled(FirstExcitations(fci, vector))} :
              \E direct \in {Filled(Fill2RDMDirect(fci, vector, workspace1))} :
                \E two_rdm \in {Symmetrize2RDM(fci, direct, 0,
                                                  fci.L * fci.L * fci.L * fci.L - 1)} :
                  call' = [ op |-> "Fill2RDM", status |-> "returned", vector |-> vector,
                            direct |-> direct, two_rdm |-> two_rdm,
                            energy |-> Fill2RDMEnergy(fci, two_rdm) ]
     ELSE call' = [op |-> "Fill2RDM", status |-> "aborted"]
  /\ UNCHANGED <<pc, args, fci>>

(***************************************************************************)
(* FCI::Fill3RDM.  three_rdm[ i + L * ( j + L * ( k + L * ( l + L * ( m +  *)
(* L * n ) ) ) ) ] holds Gamma_{ijk,lmn}.                                  *)
(***************************************************************************)
ThreeRDMIndex(L0, p0, p1, p2, p3, p4, p5) ==
  p0 + L0 * (p1 + L0 * (p2 + L0 * (p3 + L0 * (p4 + L0 * p5))))

\* The ( crea1 , anni1 , crea2 , anni2 ) of the loops down to the second excitation.
OuterQuads(self) ==
  {q \in (0 .. self.L - 1) \X (0 .. self.L - 1) \X (0 .. self.L - 1) \X (0 .. self.L - 1) :
     q[1] >= q[2] /\ q[3] >= q[2] /\ q[4] >= q[2]}

\* workspace2 after apply_excitation( workspace1, workspace2, crea2, anni2, target_irrep1 ).
SecondExcitations(self, workspace1) ==
  [q \in OuterQuads(self) |->
     Excited(self, workspace1[<<q[1], q[2]>>], q[3], q[4],
             getIrrepProduct(self.TargetIrrep,
                             getIrrepProduct(getOrb2Irrep(self, q[1]), getOrb2Irrep(self, q[2]))))]

\* The values a read past the end of vector can contribute to a dot product.
GarbageValues == {-1, 0, 1}

\* value = FCIddot( length2, workspace2, vector ) for irrep_prod1 == irrep_prod2, where
\* length2 is getVecLength( irrep_center2 ) and vector holds getVecLength( 0 ) elements:
\* the elements from getVecLength( 0 ) on are read past the end of vector.
SecondValues(self, vector, workspace2, garbage) ==
  [q \in OuterQuads(self) |->
     LET length2 == getVecLength(self, getIrrepProduct(getOrb2Irrep(self, q[3]),
                                                       getOrb2Irrep(self, q[4])))
         length3 == getVecLength(self, 0)
     IN FCIddot(Min2(length2, length3), workspace2[q], vector)
          + (IF length2 > length3 THEN garbage ELSE 0)]

\* < E_{crea1,anni1} > = FCIddot( length1, workspace1, vector ) for irrep_prod1 == 0.
FirstValues(self, vector, workspace1) ==
  [p \in OuterPairs(self) |-> FCIddot(getVecLength(self, 0), workspace1[p], vector)]

\* three_rdm at the end of the loop over irrep_center1: the element at positions
\* p0 .. p5 is the sum of what the loops add to it.
Fill3RDMDirect(self, vector, workspace2, first, second) ==
  LET L0 == self.L
      irr(orb) == getOrb2Irrep(self, orb)
  IN [idx \in 0 .. L0 * L0 * L0 * L0 * L0 * L0 - 1 |->
        LET p0 == idx % L0
            p1 == (idx \div L0) % L0
            p2 == (idx \div (L0 * L0)) % L0
            p3 == (idx \div (L0 * L0 * L0)) % L0
            p4 == (idx \div (L0 * L0 * L0 * L0)) % L0
            p5 == idx \div (L0 * L0 * L0 * L0 * L0)
            least == p0 >= p5 /\ p1 >= p5 /\ p2 >= p5 /\ p3 >= p5 /\ p4 >= p5
            irrep_prod1 == getIrrepProduct(irr(p2), irr(p5))
            irrep_prod2 == getIrrepProduct(irr(p1), irr(p4))
        IN \* < E_il E_jm E_kn >
           (IF /\ least /\ p0 >= p1
               /\ getIrrepProduct(irr(p0), irr(p3)) = getIrrepProduct(irrep_prod1, irrep_prod2)
            THEN FCIddot(getVecLength(self, 0),
                         Excited(self, workspace2[<<p2, p5, p1, p4>>], p0, p3,
                                 getIrrepProduct(getIrrepProduct(self.TargetIrrep, irrep_prod1),
                                                 irrep_prod2)),
                         vector)
            ELSE 0)
           \* + delta_kl delta_im < E_jn >
           + (IF least /\ p0 = p4 /\ p2 = p3 /\ irr(p1) = irr(p5) THEN first[<<p1, p5>>] ELSE 0)
           \* + delta_jl delta_km < E_in >
           + (IF least /\ p1 = p3 /\ p2 = p4 /\ irr(p0) = irr(p5) THEN first[<<p0, p5>>] ELSE 0)
           \* - delta_kl < E_jm E_in >
           - (IF /\ least /\ p2 = p3
                 /\ getIrrepProduct(irr(p0), irr(p5)) = getIrrepProduct(irr(p1), irr(p4))
              THEN second[<<p0, p5, p1, p4>>] ELSE 0)
           \* - delta_jl < E_im E_kn >
           - (IF /\ least /\ p1 = p3
                 /\ getIrrepProduct(irr(p2), irr(p5)) = getIrrepProduct(irr(p0), irr(p4))
              THEN second[<<p2, p5, p0, p4>>] ELSE 0)
           \* - delta_km < E_il E_jn >
           - (IF /\ least /\ p2 = p4
                 /\ getIrrepProduct(irr(p1), irr(p5)) = getIrrepProduct(irr(p0), irr(p3))
              THEN second[<<p1, p5, p0, p3>>] ELSE 0)]

\* Symmetrize3RDMPass without the six assignments that swap creators and annihilators
Symmetrize3RDMPassFiveImages(self, three_rdm, n) ==
  LET L0    == self.L
      anni3 == n % L0
      crea3 == (n \div L0) % L0
      anni2 == (n \div (L0 * L0)) % L0
      crea2 == (n \div (L0 * L0 * L0)) % L0
      crea1 == (n \div (L0 * L0 * L0 * L0)) % L0
      anni1 == n \div (L0 * L0 * L0 * L0 * L0)
      irrep_prod4 ==
        getIrrepProduct(
          getIrrepProduct(
            getIrrepProduct(
              getIrrepProduct(getOrb2Irrep(self, crea1), getOrb2Irrep(self, anni1)),
              getOrb2Irrep(self, crea2)),
            getOrb2Irrep(self, anni2)),
          getOrb2Irrep(self, crea3))
      value == three_rdm[ThreeRDMIndex(L0, crea3, crea2, crea1, anni3, anni2, anni1)]
  IN IF /\ crea1 >= anni1 /\ crea2 >= anni1 /\ anni2 >= anni1
        /\ crea3 >= crea2 /\ anni3 >= anni1
        /\ irrep_prod4 = getOrb2Irrep(self, anni3)
     THEN [three_rdm EXCEPT
             ![ThreeRDMIndex(L0, crea2, crea3, crea1, anni2, anni3, anni1)] = value,
             ![ThreeRDMIndex(L0, crea2, crea1, crea3, anni2, anni1, anni3)] = value,
             ![ThreeRDMIndex(L0, crea3, crea1, crea2, anni3, anni1, anni2)] = value,
             ![ThreeRDMIndex(L0, crea1, crea3, crea2, anni1, anni3, anni2)] = value,
             ![ThreeRDMIndex(L0, crea1, crea2, crea3, anni1, anni2, anni3)] = value]
     ELSE three_rdm

\* Pass number n of the loop nest "Make 12-fold permutation symmetric", the passes
\* counted in the order of the loops over anni1, crea1, crea2, anni2, crea3 and anni3.
Symmetrize3RDMPass(self, three_rdm, n) ==
  LET L0    == self.L
      anni3 == n % L0
      crea3 == (n \div L0) % L0
      anni2 == (n \div (L0 * L0)) % L0
      crea2 == (n \div (L0 * L0 * L0)) % L0
      crea1 == (n \div (L0 * L0 * L0 * L0)) % L0
      anni1 == n \div (L0 * L0 * L0 * L0 * L0)
      irrep_prod4 ==
        getIrrepProduct(
          getIrrepProduct(
            getIrrepProduct(
              getIrrepProduct(getOrb2Irrep(self, crea1), getOrb2Irrep(self, anni1)),
              getOrb2Irrep(self, crea2)),
            getOrb2Irrep(self, anni2)),
          getOrb2Irrep(self, crea3))
      value == three_rdm[ThreeRDMIndex(L0, crea3, crea2, crea1, anni3, anni2, anni1)]
  IN IF /\ crea1 >= anni1 /\ crea2 >= anni1 /\ anni2 >= anni1
        /\ crea3 >= crea2 /\ anni3 >= anni1
        /\ irrep_prod4 = getOrb2Irrep(self, anni3)
     THEN [three_rdm EXCEPT
             ![ThreeRDMIndex(L0, crea2, crea3, crea1, anni2, anni3, anni1)] = value,
             ![ThreeRDMIndex(L0, crea2, crea1, crea3, anni2, anni1, anni3)] = value,
             ![ThreeRDMIndex(L0, crea3, crea1, crea2, anni3, anni1, anni2)] = value,
             ![ThreeRDMIndex(L0, crea1, crea3, crea2, anni1, anni3, anni2)] = value,
             ![ThreeRDMIndex(L0, crea1, crea2, crea3, anni1, anni2, anni3)] = value,
             ![ThreeRDMIndex(L0, anni3, anni2, anni1, crea3, crea2, crea1)] = value,
             ![ThreeRDMIndex(L0, anni2, anni3, anni1, crea2, crea3, crea1)] = value,
             ![ThreeRDMIndex(L0, anni2, anni1, anni3, crea2, crea1, crea3)] = value,
             ![ThreeRDMIndex(L0, anni3, anni1, anni2, crea3, crea1, crea2)] = value,
             ![ThreeRDMIndex(L0, anni1, anni3, anni2, crea1, crea3, crea2)] = value,
             ![ThreeRDMIndex(L0, anni1, anni2, anni3, crea1, crea2, crea3)] = value]
     ELSE three_rdm

\* The passes first .. last of the loop nest, one after the other.
RECURSIVE Symmetrize3RDM(_, _, _, _)
Symmetrize3RDM(self, three_rdm, first, last) ==
  IF first > last THEN three_rdm
  ELSE IF first = last THEN Symmetrize3RDMPass(self, three_rdm, first)
  ELSE LET middle == (first + last) \div 2
           half   == Symmetrize3RDM(self, three_rdm, first, middle)
       IN InOrder(half, Symmetrize3RDM(self, half, middle + 1, last))

CallFill3RDM ==
  /\ pc = "ready"
  /\ call = NoCall
  /\ IF fci.Nel_up + fci.Nel_down >= 3
     THEN \E vector \in RDMVectors(getVecLength(fci, 0)) : \E garbage \in GarbageValues :
            \E workspace1 \in {Filled(FirstExcitations(fci, vector))} :
              \E workspace2 \in {Filled(SecondExcitations(fci, workspace1))} :
                \E first \in {Filled(FirstValues(fci, vector, workspace1))} :
                  \E second \in {Filled(SecondValues(fci, vector, workspace2, garbage))} :
                    \E direct \in {Filled(Fill3RDMDirect(fci, vector, workspace2, first,
                                                         second))} :
                      \E three_rdm \in
                           {Symmetrize3RDM(fci, direct, 0,
                                           fci.L * fci.L * fci.L * fci.L * fci.L * fci.L - 1)} :
                        call' = [ op |-> "Fill3RDM", status |-> "returned",
                                  vector |-> vector, direct |-> direct,
                                  three_rdm |-> three_rdm ]
     ELSE call' = [op |-> "Fill3RDM", status |-> "aborted"]
  /\ UNCHANGED <<pc, args, fci>>

InitRDM == InitWith(ConstructorArgs(Hamiltonians(1 .. MaxLRDM, {1}), {0}, {AmpleMemory}))

NextRDM ==
  \/ Construct
  \/ CallFill2RDM
  \/ CallFill3RDM
  \/ Return

SpecRDM == InitRDM /\ [][NextRDM]_vars

(***************************************************************************)
(* FCI::CalcSpinSquared.  The result is kept as 4 times the returned       *)
(* value, which is an integer for an integer vector.                       *)
(***************************************************************************)
MaxLSpin == 3
MaxFullLength == 4

\* What one orbital orbi adds to 4 * result at counter.
SpinSquaredTerm(self, vector, counter, orbi) ==
  LET L0         == self.L
      irrep_up   == getUpIrrepOfCounter(self, 0, counter)
      irrep_down == getIrrepProduct(irrep_up, self.TargetIrrep)
      count_up   == (counter - self.irrep_center_jumps[0][irrep_up])
                      % self.numPerIrrep_up[irrep_up]
      count_down == (counter - self.irrep_center_jumps[0][irrep_up])
                      \div self.numPerIrrep_up[irrep_up]
      diff(orb)  == self.lookup_sign_alpha[irrep_up][orb + L0 * (orb + L0 * count_up)]
                      - self.lookup_sign_beta[irrep_down][orb + L0 * (orb + L0 * count_down)]
      squared    == vector[counter] * vector[counter]
      \* - ( a_first,up^+ a_second,up )( a_second,down^+ a_first,down )
      flip(first, second) ==
        LET entry_down   == second + L0 * (first + L0 * count_down)
            entry_up     == first + L0 * (second + L0 * count_up)
            sign_product == self.lookup_sign_alpha[irrep_up][entry_up]
                              * self.lookup_sign_beta[irrep_down][entry_down]
            irrep_up_bis ==
              getIrrepProduct(irrep_up, getIrrepProduct(getOrb2Irrep(self, first),
                                                        getOrb2Irrep(self, second)))
        IN IF sign_product # 0
           THEN sign_product
                  * ReadVector(vector,
                               self.irrep_center_jumps[0][irrep_up_bis]
                                 + self.lookup_cnt_alpha[irrep_up][entry_up]
                                 + self.numPerIrrep_up[irrep_up_bis]
                                     * self.lookup_cnt_beta[irrep_down][entry_down])
                  * vector[counter]
           ELSE 0
      above      == orbi + 1 .. L0 - 1
  IN 3 * diff(orbi) * diff(orbi) * squared
       + SumFcn([orbj \in above |->
                   2 * diff(orbi) * diff(orbj) * squared
                     - 4 * flip(orbi, orbj) - 4 * flip(orbj, orbi)], above)

\* CalcSpinSquared with 0.25 * diff_ii * diff_ii in the diagonal term
CalcSpinSquaredQuarterDiagonal(self, vector) ==
  LET both == (0 .. getVecLength(self, 0) - 1) \X (0 .. self.L - 1)
      diag(ce) ==
        LET L0         == self.L
            irrep_up   == getUpIrrepOfCounter(self, 0, ce[1])
            irrep_down == getIrrepProduct(irrep_up, self.TargetIrrep)
            count_up   == (ce[1] - self.irrep_center_jumps[0][irrep_up])
                            % self.numPerIrrep_up[irrep_up]
            count_down == (ce[1] - self.irrep_center_jumps[0][irrep_up])
                            \div self.numPerIrrep_up[irrep_up]
            d == self.lookup_sign_alpha[irrep_up][ce[2] + L0 * (ce[2] + L0 * count_up)]
                   - self.lookup_sign_beta[irrep_down][ce[2] + L0 * (ce[2] + L0 * count_down)]
        IN 2 * d * d * vector[ce[1]] * vector[ce[1]]
  IN SumFcn([ce \in both |-> SpinSquaredTerm(self, vector, ce[1], ce[2]) - diag(ce)], both)

\* 4 * CalcSpinSquared( vector ).
CalcSpinSquared(self, vector) ==
  LET both == (0 .. getVecLength(self, 0) - 1) \X (0 .. self.L - 1)
  IN SumFcn([ce \in both |-> SpinSquaredTerm(self, vector, ce[1], ce[2])], both)

RECURSIVE SignedVectors(_)
\* The vectors of the given length with elements -1, 0 and 1.
SignedVectors(length) ==
  IF length = 0 THEN {<< >>}
  ELSE {Append(v, x) : v \in SignedVectors(length - 1), x \in {-1, 0, 1}}

\* The vectors passed to CalcSpinSquared: the unit vectors, the ramp, and for a short
\* vector every vector with elements -1, 0 and 1.
SpinVectors(vecLength) ==
  {Filled(UnitVector(vecLength, k)) : k \in 0 .. vecLength - 1}
    \cup {Filled(RampVector(vecLength))}
    \cup (IF vecLength <= MaxFullLength
          THEN {Filled([cnt \in 0 .. vecLength - 1 |-> v[cnt + 1]]) :
                  v \in SignedVectors(vecLength)}
          ELSE {})

CallCalcSpinSquared ==
  /\ pc = "ready"
  /\ call = NoCall
  /\ \E vector \in SpinVectors(getVecLength(fci, 0)) :
       call' = [ op |-> "CalcSpinSquared", vector |-> vector,
                 result |-> CalcSpinSquared(fci, vector) ]
  /\ UNCHANGED <<pc, args, fci>>

InitSpin == InitWith(ConstructorArgs(Hamiltonians(1 .. MaxLSpin, {1}), {0}, {AmpleMemory}))

NextSpin ==
  \/ Construct
  \/ CallCalcSpinSquared
  \/ Return

SpecSpin == InitSpin /\ [][NextSpin]_vars

(***************************************************************************)
(* FCI::DiagHamSquared, in the units of HamTimesVec applied twice (four    *)
(* times the diagonal element of the squared Hamiltonian), so that every   *)
(* factor 0.5 and 0.25 of the code is taken up by the unit.                *)
(***************************************************************************)
\* The four contributions to myResult for the determinant with the given bits: the
\* square of temp, the loop over p and q, and the direct and the exchange part of the
\* loop over k, a, i and c.
DiagHamSquaredParts(self, bits_up, bits_down) ==
  LET orbs == 0 .. self.L - 1
      same(i, j) == getOrb2Irrep(self, i) = getOrb2Irrep(self, j)
      lo(i, j) == Min2(i, j)
      hi(i, j) == Max2(i, j)
      Jmat(i, j) ==
        IF same(i, j)
        THEN SumFcn([k \in orbs |-> getERI(self, lo(i, j), hi(i, j), k, k)
                                      * (bits_up[k] + bits_down[k])], orbs)
        ELSE 0
      K_reg(bits, i, j) ==
        IF same(i, j)
        THEN SumFcn([k \in orbs |-> getERI(self, lo(i, j), k, k, hi(i, j)) * bits[k]], orbs)
        ELSE 0
      K_bar(bits, i, j) ==
        IF same(i, j)
        THEN SumFcn([k \in orbs |-> getERI(self, lo(i, j), k, k, hi(i, j)) * (1 - bits[k])],
                    orbs)
        ELSE 0
      temp ==
        SumFcn([i \in orbs |->
                  LET num_i == bits_up[i] + bits_down[i]
                  IN getGmat(self, i, i) * num_i + Jmat(i, i) * num_i
                     + K_bar(bits_up, i, i) * bits_up[i]
                     + K_bar(bits_down, i, i) * bits_down[i]], orbs)
      pq_term(p, q) ==
        IF ~same(p, q) THEN 0
        ELSE LET special_pq == bits_up[p] * (1 - bits_up[q]) + bits_down[p] * (1 - bits_down[q])
                 GplusJ_pq == getGmat(self, p, q) + 2 * Jmat(p, q)
                 K_cross_pq_up ==
                   (K_bar(bits_up, p, q) - K_reg(bits_up, p, q)) * bits_up[p] * (1 - bits_up[q])
                 K_cross_pq_down ==
                   (K_bar(bits_down, p, q) - K_reg(bits_down, p, q))
                     * bits_down[p] * (1 - bits_down[q])
             IN GplusJ_pq * (special_pq * GplusJ_pq + 2 * K_cross_pq_up + 2 * K_cross_pq_down)
                + K_cross_pq_up * K_cross_pq_up + K_cross_pq_down * K_cross_pq_down
      quads ==
        { q \in orbs \X orbs \X orbs \X orbs :
            LET k == q[1]
                a == q[2]
                i == q[3]
                c == q[4]
                local_ak_up == bits_up[a] * (1 - bits_up[k])
                local_ak_down == bits_down[a] * (1 - bits_down[k])
            IN /\ bits_up[k] + bits_down[k] < 2
               /\ local_ak_up + local_ak_down > 0 \/ local_ak_up > 0 \/ local_ak_down > 0
               /\ bits_up[i] + bits_down[i] < 2
               /\ getOrb2Irrep(self, c)
                    = getIrrepProduct(getIrrepProduct(getOrb2Irrep(self, a),
                                                      getOrb2Irrep(self, k)),
                                      getOrb2Irrep(self, i)) }
      prefactor1(q) ==
        (bits_up[q[4]] * (1 - bits_up[q[3]]) + bits_down[q[4]] * (1 - bits_down[q[3]]))
          * (bits_up[q[2]] * (1 - bits_up[q[1]]) + bits_down[q[2]] * (1 - bits_down[q[1]]))
      prefactor2(q) ==
        bits_up[q[2]] * (1 - bits_up[q[1]]) * bits_up[q[4]] * (1 - bits_up[q[3]])
          + bits_down[q[2]] * (1 - bits_down[q[1]]) * bits_down[q[4]] * (1 - bits_down[q[3]])
      eri_akci(q) == getERI(self, q[2], q[1], q[4], q[3])
      eri_aick(q) == getERI(self, q[2], q[3], q[4], q[1])
  IN [ square |-> temp * temp,
       pairs |-> SumFcn([pq \in orbs \X orbs |-> pq_term(pq[1], pq[2])], orbs \X orbs),
       direct |-> SumFcn([q \in quads |-> 2 * eri_akci(q) * prefactor1(q) * eri_akci(q)],
                         quads),
       exchange |-> SumFcn([q \in quads |-> 2 * eri_akci(q) * prefactor2(q) * eri_aick(q)],
                           quads) ]

\* DiagHamSquaredEntry without the term - prefactor2 * eri_aick
DiagHamSquaredEntryDirectOnly(self, bits_up, bits_down) ==
  LET parts == DiagHamSquaredParts(self, bits_up, bits_down)
  IN parts.square + parts.pairs + parts.direct

\* myResult of DiagHamSquared for the determinant with the given bits
DiagHamSquaredEntry(self, bits_up, bits_down) ==
  LET parts == DiagHamSquaredParts(self, bits_up, bits_down)
  IN parts.square + parts.pairs + parts.direct - parts.exchange

DiagHamSquared(self) ==
  Filled([counter \in 0 .. getVecLength(self, 0) - 1 |->
            LET bits == getBitsOfCounter(self, 0, counter)
            IN DiagHamSquaredEntry(self, bits.bits_up, bits.bits_down)])

\* FCI::CheckHamDEBUG, "Building Ham^2 by HamTimesVec" and "Building diag( Ham^2 ) by
\* DiagHamSquared": column count of HamHXV is HamTimesVec applied twice to unit vector
\* count, and workspace is the output of DiagHamSquared.
CheckHamSquaredDEBUG ==
  /\ pc = "ready"
  /\ call = NoCall
  /\ LET vecLength == getVecLength(fci, 0)
     IN \E columns \in {Filled([count \in 0 .. vecLength - 1 |->
                                 HamTimesVec(fci,
                                   HamTimesVec(fci, Filled(UnitVector(vecLength, count))))])} :
          call' = [ op |-> "CheckHamSquaredDEBUG",
                    vecLength |-> vecLength,
                    HamHXV |-> Filled([idx \in 0 .. vecLength * vecLength - 1 |->
                                         columns[idx \div vecLength][idx % vecLength]]),
                    workspace |-> DiagHamSquared(fci) ]
  /\ UNCHANGED <<pc, args, fci>>

InitSquared == InitHam

NextSquared ==
  \/ Construct
  \/ CheckHamSquaredDEBUG
  \/ Return

SpecSquared == InitSquared /\ [][NextSquared]_vars

(***************************************************************************)
(* The data flow of CGSolveSystem.  The contents of a buffer is kept as    *)
(* the expression the code has computed into it: a record that names the   *)
(* operation of the last write and holds the contents of the buffers it    *)
(* read.  The solution of CGCoreSolver after count_k passes of its while   *)
(* body is kept as the initial guess with the low FlowCountKBits bits of   *)
(* count_k; the helper arrays of the solver are kept as the name of their  *)
(* last writer.                                                            *)
(***************************************************************************)
MaxLFlow == 2
MaxAlpha == 1
FlowCountKBits == 1

\* double * RESID = new double[ vecLength ], and the contents of a caller's buffer
NewDouble == [f |-> "new double[]"]
OnEntry(buffer) == [f |-> "on entry", buffer |-> buffer]

FlowBuffers ==
  [ RHS |-> OnEntry("RHS"), RealSol |-> OnEntry("RealSol"), ImagSol |-> OnEntry("ImagSol"),
    RESID |-> NewDouble, PVEC |-> NewDouble, OxPVEC |-> NewDouble, temp |-> NewDouble,
    temp2 |-> NewDouble, precon |-> NewDouble ]

\* CGDiagPrecond( alpha , beta , eta , precon , temp ): precon = 1 / sqrt( diagElement ),
\* of which the model keeps which elements have fabs( precon[ cnt ] ) above
\* HEFF_DAVIDSON_PRECOND_CUTOFF; temp holds the output of DiagHamSquared.
CGDiagPrecond(bufs, alpha, beta, eta, above_cutoff) ==
  [bufs EXCEPT !.precon = [f |-> "CGDiagPrecond", alpha |-> alpha, beta |-> beta,
                           eta |-> eta, above_cutoff |-> above_cutoff],
               !.temp = [f |-> "DiagHamSquared"]]

\* out = ( alpha + beta * H ) * in, with alpha and beta as << numerator , denominator >>
CGAlphaPlusBetaHAM(alpha, beta, in) ==
  [f |-> "CGAlphaPlusBetaHAM", alpha |-> alpha, beta |-> beta, in |-> in]

\* out[ cnt ] = factor * precon[ cnt ] * in[ cnt ]
TimesPrecon(factor, precon, in) ==
  [f |-> "times precon", factor |-> factor, precon |-> precon, in |-> in]

\* CGOperator( alpha , beta , eta , precon , in , temp , temp2 , out )
CGOperator(bufs, out) ==
  [bufs EXCEPT !.temp = [f |-> "CGOperator"], !.temp2 = [f |-> "CGOperator"],
               ![out] = [f |-> "CGOperator"]]

\* CGCoreSolver to its first while test: O_p_k = Operator * Sol, r_0, p_0.
CGCoreSolverStart(bufs) ==
  [CGOperator(bufs, "OxPVEC") EXCEPT !.RESID = [f |-> "CGCoreSolver"],
                                     !.PVEC = [f |-> "CGCoreSolver"]]

\* Sol after count_k passes of the while body
Iterate(Sol, count_k) ==
  IF Sol.f = "CGCoreSolver iterate"
  THEN [Sol EXCEPT !.count_k = count_k]
  ELSE [f |-> "CGCoreSolver iterate", guess |-> Sol, count_k |-> count_k]

\* The divisor of RealSol[ cnt ] without the test of fabs( precon[ cnt ] )
PreconDivisorNoCutoff(precon, cnt) == "precon"

\* The divisor of RealSol[ cnt ] in the loop after the initial guess
PreconDivisor(precon, cnt) ==
  IF precon.above_cutoff[cnt] THEN "precon" ELSE "HEFF_DAVIDSON_PRECOND_CUTOFF"

DividedBy(in, precon, vecLength) ==
  [f |-> "divided", in |-> in, precon |-> precon,
   by |-> [cnt \in 0 .. vecLength - 1 |-> PreconDivisor(precon, cnt)]]

\* CGSolveSystem from its entry to the first while test of the first CGCoreSolver.
EnterCGSolveSystemFlow(vecLength, alpha, beta, eta, above_cutoff, checkError, residualNorm) ==
  LET diag == CGDiagPrecond(FlowBuffers, alpha, beta, eta, above_cutoff)
  IN IF eta = 0
     THEN [ op |-> "CGSolveSystem", status |-> "aborted", alpha |-> alpha, beta |-> beta,
            eta |-> eta, checkError |-> checkError, bufs |-> diag, solving |-> "none",
            count_k |-> 0, residualNorm |-> "none" ]
     ELSE LET RESID == TimesPrecon(-eta, diag.precon, diag.RHS)
              guess == [diag EXCEPT !.RESID = RESID, !.ImagSol = RESID]
          IN [ op |-> "CGSolveSystem", status |-> "CGCoreSolver", alpha |-> alpha,
               beta |-> beta, eta |-> eta, checkError |-> checkError,
               bufs |-> CGCoreSolverStart(guess), solving |-> "ImagSol", count_k |-> 0,
               residualNorm |-> residualNorm ]

\* One pass of the while body of CGCoreSolver.
CGCoreSolverFlowBody(st, residualNorm) ==
  LET count_k == (st.count_k + 1) % Pow2(FlowCountKBits)
  IN [st EXCEPT !.bufs = [CGOperator(@, "OxPVEC") EXCEPT
                            ![st.solving] = Iterate(@, count_k),
                            !.RESID = [f |-> "CGCoreSolver"],
                            !.PVEC = [f |-> "CGCoreSolver"]],
                !.count_k = count_k,
                !.residualNorm = residualNorm]

CallCGSolveSystemFlow ==
  /\ pc = "ready"
  /\ call = NoCall
  /\ \E alpha, beta \in 0 .. MaxAlpha : \E eta \in -MaxEta .. MaxEta :
       \E above_cutoff \in [0 .. getVecLength(fci, 0) - 1 -> BOOLEAN] :
         \E checkError \in BOOLEAN : \E residualNorm \in ResidualNorms :
           call' = EnterCGSolveSystemFlow(getVecLength(fci, 0), alpha, beta, eta,
                                          above_cutoff, checkError, residualNorm)
  /\ UNCHANGED <<pc, args, fci>>

CGFlowIteration ==
  /\ call.op = "CGSolveSystem"
  /\ call.status = "CGCoreSolver"
  /\ WhileCondition(call.residualNorm)
  /\ \E residualNorm \in ResidualNorms : call' = CGCoreSolverFlowBody(call, residualNorm)
  /\ UNCHANGED <<pc, args, fci>>

\* CGCoreSolver has returned: ImagSol[ cnt ] = precon[ cnt ] * ImagSol[ cnt ], or
\* RealSol[ cnt ] = precon[ cnt ] * RealSol[ cnt ].
ScaleSolution ==
  /\ call.op = "CGSolveSystem"
  /\ call.status = "CGCoreSolver"
  /\ ~WhileCondition(call.residualNorm)
  /\ call' = [call EXCEPT !.bufs[call.solving] = TimesPrecon(1, call.bufs.precon, @),
                          !.status = IF call.solving = "ImagSol" THEN "guess RealSol"
                                     ELSE "check",
                          !.solving = "none",
                          !.residualNorm = "none"]
  /\ UNCHANGED <<pc, args, fci>>

\* CGAlphaPlusBetaHAM( -alpha/eta, -beta/eta, ImagSol, RealSol )
GuessRealSol ==
  /\ call.op = "CGSolveSystem"
  /\ call.status = "guess RealSol"
  /\ call' = [call EXCEPT !.bufs.RealSol =
                            CGAlphaPlusBetaHAM(<<-call.alpha, call.eta>>,
                                               <<-call.beta, call.eta>>, call.bufs.ImagSol),
                          !.status = "divide RealSol"]
  /\ UNCHANGED <<pc, args, fci>>

\* The loop that divides RealSol[ cnt ] by precon[ cnt ] or by the cutoff.
DivideRealSol ==
  /\ call.op = "CGSolveSystem"
  /\ call.status = "divide RealSol"
  /\ call' = [call EXCEPT !.bufs.RealSol =
                            DividedBy(@, call.bufs.precon, getVecLength(fci, 0)),
                          !.status = "solve RealSol"]
  /\ UNCHANGED <<pc, args, fci>>

\* RESID = precon * ( alpha + beta * H ) * RHS, and CGCoreSolver on RealSol to its first
\* while test.
SolveRealSol ==
  /\ call.op = "CGSolveSystem"
  /\ call.status = "solve RealSol"
  /\ \E residualNorm \in ResidualNorms :
       call' = [call EXCEPT !.bufs =
                              CGCoreSolverStart(
                                [@ EXCEPT !.RESID =
                                   TimesPrecon(1, call.bufs.precon,
                                     CGAlphaPlusBetaHAM(<<call.alpha, 1>>, <<call.beta, 1>>,
                                                        call.bufs.RHS))]),
                            !.status = "CGCoreSolver",
                            !.solving = "RealSol",
                            !.count_k = 0,
                            !.residualNorm = residualNorm]
  /\ UNCHANGED <<pc, args, fci>>

\* if (( checkError ) && ( FCIverbose > 0 )){ ... }, the clean up and the return.
CheckErrorAndReturn ==
  /\ call.op = "CGSolveSystem"
  /\ call.status = "check"
  /\ call' = [call EXCEPT !.bufs = IF call.checkError /\ fci.FCIverbose > 0
                                   THEN [CGOperator(@, "OxPVEC") EXCEPT
                                           !.precon = [f |-> "1.0"],
                                           !.RESID = CGAlphaPlusBetaHAM(<<call.alpha, 1>>,
                                                       <<call.beta, 1>>, call.bufs.RHS)]
                                   ELSE @,
                          !.status = "returned"]
  /\ UNCHANGED <<pc, args, fci>>

ReturnCGSolveSystemFlow ==
  /\ call.op = "CGSolveSystem"
  /\ call.status = "returned"
  /\ call' = NoCall
  /\ UNCHANGED <<pc, args, fci>>

InitFlow == InitWith(ConstructorArgs(Hamiltonians(1 .. MaxLFlow, {1}), {0, 1}, {AmpleMemory}))

NextFlow ==
  \/ Construct
  \/ CallCGSolveSystemFlow
  \/ CGFlowIteration
  \/ ScaleSolution
  \/ GuessRealSol
  \/ DivideRealSol
  \/ SolveRealSol
  \/ CheckErrorAndReturn
  \/ ReturnCGSolveSystemFlow

SpecFlow == InitFlow /\ [][NextFlow]_vars

(***************************************************************************)
(* FCI::GFmatrix_addition and FCI::GFmatrix_removal.  The solutions of     *)
(* CGSolveSystem are doubles the model does not compute: they are inputs   *)
(* of the call, as is whether the while loop of CGCoreSolver comes to an   *)
(* end and what a division by a chunk length 0 does in the auxiliary       *)
(* instance.  The arrays of the caller hold Uninitialized on entry.        *)
(***************************************************************************)
MaxLGF == 2

\* Fill2RDM( vector , two_rdm ) of an instance with two or more electrons
Fill2RDM(self, vector) ==
  Symmetrize2RDM(self, Filled(Fill2RDMDirect(self, vector,
                                             Filled(FirstExcitations(self, vector)))),
                 0, self.L * self.L * self.L * self.L - 1)

\* The asserts at the head of both functions; the pointers RePartsGF and ImPartsGF of
\* the calls of the model are not NULL.  unsigned int orbl = orbsLeft[ cnt ] makes of a
\* negative int a value of 2^31 or more, which is not below L.
GFmatrixAsserts(self, orbsLeft, orbsRight) ==
  /\ Len(orbsLeft) > 0
  /\ Len(orbsRight) > 0
  /\ \A cnt \in 1 .. Len(orbsLeft) : orbsLeft[cnt] >= 0 /\ orbsLeft[cnt] < self.L
  /\ \A cnt \in 1 .. Len(orbsRight) : orbsRight[cnt] >= 0 /\ orbsRight[cnt] < self.L

\* The outputs after the loops that set them to 0.0
GFmatrixCleared(self, numLeft, numRight, supplied) ==
  [ RePartsGF |-> [counter \in 0 .. numLeft * numRight - 1 |-> 0],
    ImPartsGF |-> [counter \in 0 .. numLeft * numRight - 1 |-> 0],
    TwoRDM |-> [name \in supplied |-> [cnt \in 0 .. numRight - 1 |->
                  [elem \in 0 .. self.L * self.L * self.L * self.L - 1 |-> 0]]] ]

\* isOK of GFmatrix_addition (added) or GFmatrix_removal
GFisOK(self, added, isUp) ==
  IF added THEN (IF isUp THEN self.Nel_up < self.L ELSE self.Nel_down < self.L)
  ELSE (IF isUp THEN self.Nel_up > 0 ELSE self.Nel_down > 0)

\* matchingIrrep without the comparison of the irreps
GFmatchingIrrepAnyLeft(self, orbsLeft, orbitalRight) ==
  \E cnt_left \in 1 .. Len(orbsLeft) : TRUE

\* matchingIrrep for a right orbital
GFmatchingIrrep(self, orbsLeft, orbitalRight) ==
  \E cnt_left \in 1 .. Len(orbsLeft) :
    getOrb2Irrep(self, orbsLeft[cnt_left]) = getOrb2Irrep(self, orbitalRight)

\* The auxiliary instance of a right orbital:
\* CheMPS2::FCI additionFCI( Ham, addNelUP, addNelDOWN, addIrrep, maxMemWorkMB, FCIverbose )
AuxiliaryFCI(self, Ham, added, isUp, orbitalRight) ==
  LET shift == IF added THEN 1 ELSE -1
  IN FCI(Ham, self.Nel_up + (IF isUp THEN shift ELSE 0),
         self.Nel_down + (IF isUp THEN 0 ELSE shift),
         getIrrepProduct(self.TargetIrrep, getOrb2Irrep(self, orbitalRight)),
         self.maxMemWorkMB, self.FCIverbose)

\* The body of if ( isOK && matchingIrrep ) for a right orbital: the vector of the
\* auxiliary instance auxFCI, the solve, the 2-RDMs and the entries of the left
\* orbitals.  out holds the outputs so far.
GFmatrixSolve(self, auxFCI, added, isUp, eta, orbsLeft, cnt_right, orbitalRight, GSvector, out, given) ==
  LET numLeft    == Len(orbsLeft)
      auxLength  == getVecLength(auxFCI, 0)
      acted(orb) == ActWithSecondQuantizedOperator(auxFCI, IF added THEN "C" ELSE "A", isUp,
                                                   orb, << >>, self, GSvector).thisVector
      RealPartSolution == Filled([cnt \in 0 .. auxLength - 1 |-> given.RealPartSolution])
      ImagPartSolution == Filled([cnt \in 0 .. auxLength - 1 |-> given.ImagPartSolution])
      built == [ Nel_up |-> auxFCI.Nel_up, Nel_down |-> auxFCI.Nel_down,
                 TargetIrrep |-> auxFCI.TargetIrrep, right |-> cnt_right ]
      solved ==
        IF eta = 0 THEN "aborted"
        ELSE IF DividesByZero(auxFCI) /\ given.division = "trap" THEN "trap"
        ELSE IF ~given.ends THEN "CGCoreSolver"
        ELSE IF DOMAIN out.TwoRDM # {} /\ auxFCI.Nel_up + auxFCI.Nel_down < 2 THEN "aborted"
        ELSE "returned"
      source(name) == IF name = "TwoRDMreal" THEN RealPartSolution
                      ELSE IF name = "TwoRDMimag" THEN ImagPartSolution
                      ELSE Filled(acted(orbitalRight))
      matching == {cnt_left \in 0 .. numLeft - 1 :
                     getOrb2Irrep(self, orbsLeft[cnt_left + 1])
                       = getOrb2Irrep(self, orbitalRight)}
      vectors == Filled([cnt_left \in matching |-> Filled(acted(orbsLeft[cnt_left + 1]))])
      column(parts, solution) ==
        [counter \in DOMAIN parts |->
           IF counter \div numLeft = cnt_right /\ counter % numLeft \in matching
           THEN FCIddot(auxLength, vectors[counter % numLeft], solution)
           ELSE parts[counter]]
  IN IF solved # "returned"
     THEN [out EXCEPT !.status = solved, !.built = Append(@, built)]
     ELSE [out EXCEPT !.built = Append(@, built),
                      !.TwoRDM = [name \in DOMAIN @ |->
                                    [@[name] EXCEPT ![cnt_right] =
                                       Fill2RDM(auxFCI, source(name))]],
                      !.RePartsGF = Filled(column(@, RealPartSolution)),
                      !.ImPartsGF = Filled(column(@, ImagPartSolution))]

\* The loop over cnt_right, from cnt_right on; auxFCIs holds, for every orbital, the
\* auxiliary instance that is built when the orbital is a right orbital that passes
\* the test.
RECURSIVE GFmatrixLoop(_, _, _, _, _, _, _, _, _, _, _)
GFmatrixLoop(self, auxFCIs, added, isUp, eta, orbsLeft, orbsRight, GSvector, out, given, cnt_right) ==
  IF cnt_right >= Len(orbsRight) \/ out.status # "returned" THEN out
  ELSE LET orbitalRight == orbsRight[cnt_right + 1]
           after ==
             IF GFisOK(self, added, isUp) /\ GFmatchingIrrep(self, orbsLeft, orbitalRight)
             THEN GFmatrixSolve(self, auxFCIs[orbitalRight], added, isUp, eta, orbsLeft,
                                cnt_right, orbitalRight, GSvector, out, given)
             ELSE out
       IN InOrder(after, GFmatrixLoop(self, auxFCIs, added, isUp, eta, orbsLeft, orbsRight,
                                      GSvector, after, given, cnt_right + 1))

\* GFmatrix_addition (added) or GFmatrix_removal: the outputs when the call has
\* returned, has ended in a failed assert or a trap, or stays in CGCoreSolver, with the
\* outputs as they were after the loops that set them to 0.0 and the auxiliary
\* instances that were built.
GFmatrix(self, auxFCIs, added, isUp, eta, orbsLeft, orbsRight, GSvector, supplied, given) ==
  IF ~GFmatrixAsserts(self, orbsLeft, orbsRight)
  THEN [ status |-> "aborted", cleared |-> "none", built |-> << >>,
         RePartsGF |-> [counter \in 0 .. Len(orbsLeft) * Len(orbsRight) - 1 |-> Uninitialized],
         ImPartsGF |-> [counter \in 0 .. Len(orbsLeft) * Len(orbsRight) - 1 |-> Uninitialized],
         TwoRDM |-> << >> ]
  ELSE LET cleared == GFmatrixCleared(self, Len(orbsLeft), Len(orbsRight), supplied)
       IN [cleared |-> cleared]
          @@ GFmatrixLoop(self, auxFCIs, added, isUp, eta, orbsLeft, orbsRight, GSvector,
                          [status |-> "returned", built |-> << >>] @@ cleared, given, 0)

\* The arrays of orbitals passed to a call: one orbital, or all orbitals in rising or
\* in falling order; and the arrays the asserts refuse (no orbital, the orbital L, the
\* orbital -1).
OrbitalArrays(self) ==
  {<<orb>> : orb \in 0 .. self.L - 1}
    \cup {[cnt \in 1 .. self.L |-> cnt - 1], [cnt \in 1 .. self.L |-> self.L - cnt]}

RefusedOrbitalArrays(self) == {<< >>, <<self.L>>, <<-1>>}

\* The arrays TwoRDMreal, TwoRDMimag and TwoRDMadd (TwoRDMrem) that are not NULL.
SuppliedTwoRDMs == {{}, {"TwoRDMreal", "TwoRDMimag", "TwoRDMadd"}}

\* What CGSolveSystem does in the auxiliary instance: the value of every element of the
\* two solutions, whether CGCoreSolver comes to an end, what a division by zero does.
\* With eta = 0 the assert of CGSolveSystem fails before any of them matters.
GivenSolves(eta) ==
  IF eta = 0
  THEN {[RealPartSolution |-> 1, ImagPartSolution |-> 1, ends |-> TRUE, division |-> "trap"]}
  ELSE { [RealPartSolution |-> 1, ImagPartSolution |-> -1, ends |-> TRUE,
          division |-> "quotient 0"],
         [RealPartSolution |-> 2, ImagPartSolution |-> 1, ends |-> TRUE, division |-> "trap"],
         [RealPartSolution |-> 1, ImagPartSolution |-> 1, ends |-> FALSE,
          division |-> "quotient 0"] }

CallGFmatrix ==
  /\ pc = "ready"
  /\ call = NoCall
  /\ \E added, isUp \in BOOLEAN :
       \E auxFCIs \in {IF GFisOK(fci, added, isUp)
                       THEN Filled([orb \in 0 .. fci.L - 1 |->
                                      AuxiliaryFCI(fci, args.Ham, added, isUp, orb)])
                       ELSE << >>} :
         \E GSvector \in {Filled(RampVector(getVecLength(fci, 0)))} :
           \E eta \in 0 .. MaxEta : \E given \in GivenSolves(eta) :
             \E orbs \in (OrbitalArrays(fci) \X OrbitalArrays(fci))
                           \cup (RefusedOrbitalArrays(fci) \X {<<0>>})
                           \cup ({<<0>>} \X RefusedOrbitalArrays(fci)) :
               \E supplied \in SuppliedTwoRDMs :
                 call' = [ op |-> IF added THEN "GFmatrix_addition" ELSE "GFmatrix_removal",
                           added |-> added, isUp |-> isUp, eta |-> eta,
                           orbsLeft |-> orbs[1], orbsRight |-> orbs[2],
                           supplied |-> supplied, given |-> given ]
                         @@ GFmatrix(fci, auxFCIs, added, isUp, eta, orbs[1], orbs[2],
                                     GSvector, supplied, given)
  /\ UNCHANGED <<pc, args, fci>>

\* The instances with up to MaxLGF orbitals in groups of 1 or 2 irreps.
InitGF ==
  InitWith({a \in ConstructorArgs(Hamiltonians(1 .. MaxLGF, {1}), {0}, {AmpleMemory}) :
              a.Ham.NumIrreps <= 2})

NextGF ==
  \/ Construct
  \/ CallGFmatrix
  \/ Return

SpecGF == InitGF /\ [][NextGF]_vars

(***************************************************************************)
(* The calls FCIddot( length , workspace , vector ) of Fill2RDM and        *)
(* Fill3RDM: for each, the loop indices, the length passed, and the target *)
(* irrep of the sector the workspace vector was excited into.              *)
(***************************************************************************)
Fill2RDMInnerProducts(self) ==
  LET irr(orb) == getOrb2Irrep(self, orb)
      length2  == getVecLength(self, 0)
  IN { [ value |-> "< E_{crea1,anni1} >", orbitals |-> p, length |-> length2,
         sector |-> getIrrepProduct(self.TargetIrrep, getIrrepProduct(irr(p[1]), irr(p[2]))) ] :
         p \in { p \in OuterPairs(self) : getIrrepProduct(irr(p[1]), irr(p[2])) = 0 } }
     \cup
     { [ value |-> "< E_{crea2,anni2} E_{crea1,anni1} >", orbitals |-> q, length |-> length2,
         sector |-> getIrrepProduct(
                      getIrrepProduct(self.TargetIrrep,
                                      getIrrepProduct(irr(q[1]), irr(q[2]))),
                      getIrrepProduct(irr(q[3]), irr(q[4]))) ] :
         q \in { q \in OuterQuads(self) :
                   getIrrepProduct(irr(q[3]), irr(q[4]))
                     = getIrrepProduct(irr(q[1]), irr(q[2])) } }

Fill3RDMInnerProducts(self) ==
  LET irr(orb) == getOrb2Irrep(self, orb)
      orbs     == 0 .. self.L - 1
      length3  == getVecLength(self, 0)
      prod1(q) == getIrrepProduct(irr(q[1]), irr(q[2]))
      prod2(q) == getIrrepProduct(irr(q[3]), irr(q[4]))
      target_irrep1(q) == getIrrepProduct(self.TargetIrrep, prod1(q))
      target_irrep2(q) == getIrrepProduct(target_irrep1(q), prod2(q))
  IN { [ value |-> "< E_{crea1,anni1} >", orbitals |-> p,
         length |-> getVecLength(self, getIrrepProduct(irr(p[1]), irr(p[2]))),
         sector |-> getIrrepProduct(self.TargetIrrep, getIrrepProduct(irr(p[1]), irr(p[2]))) ] :
         p \in { p \in OuterPairs(self) : getIrrepProduct(irr(p[1]), irr(p[2])) = 0 } }
     \cup
     { [ value |-> "< E_{crea2,anni2} E_{crea1,anni1} >", orbitals |-> q,
         length |-> getVecLength(self, prod2(q)),
         sector |-> target_irrep2(q) ] :
         q \in { q \in OuterQuads(self) : prod1(q) = prod2(q) } }
     \cup
     { [ value |-> "< E_{crea3,anni3} E_{crea2,anni2} E_{crea1,anni1} >", orbitals |-> s,
         length |-> length3,
         sector |-> getIrrepProduct(target_irrep2(s),
                                    getIrrepProduct(irr(s[5]), irr(s[6]))) ] :
         s \in { s \in orbs \X orbs \X orbs \X orbs \X orbs \X orbs :
                   /\ <<s[1], s[2], s[3], s[4]>> \in OuterQuads(self)
                   /\ s[5] >= s[3]
                   /\ s[6] >= s[2]
                   /\ getIrrepProduct(irr(s[5]), irr(s[6]))
                        = getIrrepProduct(prod1(s), prod2(s)) } }

(***************************************************************************)
(* The unsigned int arithmetic of StartupCountersVsBitstrings and the int  *)
(* masks of str2bits, at every L the assert accepts.  An unsigned int is   *)
(* kept as two halves of HalfBits bits, hi * 2^HalfBits + lo, so that the  *)
(* product TwoPowL *= 2 is taken modulo 2^UIntBits as the type does it.    *)
(* The tables themselves are not built here: the loop over the bit         *)
(* strings is followed to its first pass.                                  *)
(***************************************************************************)
MaxLWide == 33
HalfBits == UIntBits \div 2

UnsignedOne == [hi |-> 0, lo |-> 1]

\* x * 2 in unsigned int
TimesTwo(x) ==
  [hi |-> (2 * x.hi + (2 * x.lo) \div Pow2(HalfBits)) % Pow2(HalfBits),
   lo |-> (2 * x.lo) % Pow2(HalfBits)]

\* 1 << bit in int: the value, and whether 2^bit is no value of int.
ShiftOne(bit) ==
  IF bit < UIntBits - 1 THEN [overflow |-> FALSE, value |-> Pow2(bit)]
  ELSE [overflow |-> TRUE, value |-> 0]

\* assert( L <= CHAR_BIT * sizeof(unsigned int) ) and unsigned int TwoPowL = 1
EnterStartupCountersVsBitstrings ==
  /\ pc = "new"
  /\ call = NoCall
  /\ call' = IF args.L <= UIntBits
             THEN [ op |-> "StartupCountersVsBitstrings", status |-> "TwoPowL", L |-> args.L,
                    orb |-> 0, TwoPowL |-> UnsignedOne ]
             ELSE [op |-> "StartupCountersVsBitstrings", status |-> "aborted", L |-> args.L]
  /\ UNCHANGED <<pc, args, fci>>

\* for (unsigned int orb = 0; orb < L; orb++){ TwoPowL *= 2; }
TwoPowLTimesTwo ==
  /\ call.op = "StartupCountersVsBitstrings"
  /\ call.status = "TwoPowL"
  /\ call.orb < call.L
  /\ call' = [call EXCEPT !.TwoPowL = TimesTwo(@), !.orb = @ + 1]
  /\ UNCHANGED <<pc, args, fci>>

\* str2cnt_up[ irrep ] = new int[ TwoPowL ], and the loop over the bit strings comes to
\* its first test bitstring < TwoPowL.
AllocateStr2cnt ==
  /\ call.op = "StartupCountersVsBitstrings"
  /\ call.status = "TwoPowL"
  /\ call.orb = call.L
  /\ call' = [ op |-> "StartupCountersVsBitstrings",
               status |-> IF call.TwoPowL = [hi |-> 0, lo |-> 0] THEN "enumerated"
                          ELSE "str2bits",
               L |-> call.L, TwoPowL |-> call.TwoPowL, entries |-> call.TwoPowL,
               bitstring |-> 0, bit |-> 0, mask |-> [overflow |-> FALSE, value |-> 0] ]
  /\ UNCHANGED <<pc, args, fci>>

\* str2bits( L , bitstring , bits ) of the first bit string: one pass of its loop,
\* bits[ bit ] = ( bitstring & ( 1 << bit ) ) >> bit.
Str2bitsMask ==
  /\ call.op = "StartupCountersVsBitstrings"
  /\ call.status = "str2bits"
  /\ call' = IF call.bit < call.L
             THEN [call EXCEPT !.mask = ShiftOne(call.bit), !.bit = @ + 1]
             ELSE [call EXCEPT !.status = "enumerating"]
  /\ UNCHANGED <<pc, args, fci>>

InitWide ==
  /\ pc = "new"
  /\ args \in {[L |-> Lval] : Lval \in 0 .. MaxLWide}
  /\ fci = NoInstance
  /\ call = NoCall

NextWide ==
  \/ EnterStartupCountersVsBitstrings
  \/ TwoPowLTimesTwo
  \/ AllocateStr2cnt
  \/ Str2bitsMask

SpecWide == InitWide /\ [][NextWide]_vars

(***************************************************************************)
(* An annihilator followed by a creator, each applied with                 *)
(* FCI::ActWithSecondQuantizedOperator through an auxiliary instance, next *)
(* to FCI::apply_excitation for the same pair of orbitals.                 *)
(***************************************************************************)
MaxLChain == 3

\* The number of electrons of a spin channel.
NelOfChannel(self, isUp) == IF isUp THEN self.Nel_up ELSE self.Nel_down

\* The spin channels from which an electron can be annihilated.
FilledChannels(self) == {isUp \in BOOLEAN : NelOfChannel(self, isUp) > 0}

\* The instance with one electron less in the channel, whose target irrep is that of
\* the instance times the irrep of the orbital.
AnnihilatedFCI(self, Ham, isUp, anni) ==
  FCI(Ham, IF isUp THEN self.Nel_up - 1 ELSE self.Nel_up,
      IF isUp THEN self.Nel_down ELSE self.Nel_down - 1,
      getIrrepProduct(self.TargetIrrep, getOrb2Irrep(self, anni)), AmpleMemory, 0)

\* The instance with the electron counts of self, whose target irrep is that of self
\* times the irreps of both orbitals.
ExcitedFCI(self, Ham, crea, anni) ==
  FCI(Ham, self.Nel_up, self.Nel_down,
      getIrrepProduct(getIrrepProduct(self.TargetIrrep, getOrb2Irrep(self, crea)),
                      getOrb2Irrep(self, anni)),
      AmpleMemory, 0)

\* The vector of the instance fin after 'A' on the orbital anni from self into mid and
\* 'C' on the orbital crea from mid into fin, in one spin channel.
AnnihilateThenCreate(self, mid, fin, isUp, crea, anni, vector) ==
  LET step(into, op, orb, from, given) ==
        ActWithSecondQuantizedOperator(into, op, isUp, orb, << >>, from, given).thisVector
  IN step(fin, "C", crea, mid, step(mid, "A", anni, self, vector))

\* The vectors given to both paths: the unit vectors, and two vectors without zeros.
ChainVectors(vecLength) ==
  {Filled(UnitVector(vecLength, k)) : k \in 0 .. vecLength - 1}
    \cup {Filled(RampVector(vecLength)), Filled(SquaresVector(vecLength))}

\* Both paths on the same vector: the sum over the spin channels of the chained
\* operators, and apply_excitation with the target irrep of the instance.
CallAnnihilateThenCreate ==
  /\ pc = "ready"
  /\ call = NoCall
  /\ \E crea, anni \in 0 .. fci.L - 1 :
       \E fin \in {ExcitedFCI(fci, args.Ham, crea, anni)} :
         \E mids \in {Filled([isUp \in FilledChannels(fci) |->
                                AnnihilatedFCI(fci, args.Ham, isUp, anni)])} :
           \E vector \in ChainVectors(getVecLength(fci, 0)) :
             \E parts \in {Filled([isUp \in FilledChannels(fci) |->
                                     AnnihilateThenCreate(fci, mids[isUp], fin, isUp, crea,
                                                          anni, vector)])} :
               call' = [ op |-> "AnnihilateThenCreate", crea |-> crea, anni |-> anni,
                         vector |-> vector,
                         target |-> fin.TargetIrrep,
                         chained |->
                           Filled([cnt \in 0 .. getVecLength(fin, 0) - 1 |->
                                     SumFcn([isUp \in FilledChannels(fci) |-> parts[isUp][cnt]],
                                            FilledChannels(fci))]),
                         result_vector |->
                           Excited(fci, vector, crea, anni, fci.TargetIrrep) ]
  /\ UNCHANGED <<pc, args, fci>>

InitChain == InitWith(ConstructorArgs(Hamiltonians(1 .. MaxLChain, {1}), {0}, {AmpleMemory}))

NextChain ==
  \/ Construct
  \/ CallAnnihilateThenCreate
  \/ Return

SpecChain == InitChain /\ [][NextChain]_vars

(***************************************************************************)
(* What the claims speak of, stated without the tables of the instance.    *)
(***************************************************************************)
\* The orbitals that bit string s occupies.
Occupied(Lval, s) == {orb \in 0 .. Lval - 1 : (s \div Pow2(orb)) % 2 = 1}

\* The product of the irreps of a set of orbitals.
RECURSIVE IrrepOfOrbitals(_, _)
IrrepOfOrbitals(self, S) ==
  IF S = {} THEN 0
  ELSE LET orb == CHOOSE x \in S : TRUE
       IN BitXor(self.orb2irrep[orb], IrrepOfOrbitals(self, S \ {orb}))

AllStrings(self) == 0 .. Pow2(self.L) - 1

\* The bit strings with Nel electrons and irrep r.
ValidStrings(self, Nel, r) ==
  { s \in AllStrings(self) :
      /\ Cardinality(Occupied(self.L, s)) = Nel
      /\ IrrepOfOrbitals(self, Occupied(self.L, s)) = r }

\* The tables of one spin channel.
Channel(self, spin) ==
  IF spin = "up"
  THEN [ Nel |-> self.Nel_up, numPerIrrep |-> self.numPerIrrep_up,
         str2cnt |-> self.str2cnt_up, cnt2str |-> self.cnt2str_up,
         lookup_cnt |-> self.lookup_cnt_alpha, lookup_irrep |-> self.lookup_irrep_alpha,
         lookup_sign |-> self.lookup_sign_alpha ]
  ELSE [ Nel |-> self.Nel_down, numPerIrrep |-> self.numPerIrrep_down,
         str2cnt |-> self.str2cnt_down, cnt2str |-> self.cnt2str_down,
         lookup_cnt |-> self.lookup_cnt_beta, lookup_irrep |-> self.lookup_irrep_beta,
         lookup_sign |-> self.lookup_sign_beta ]

Spins == {"up", "down"}
Irreps(self) == 0 .. self.NumIrreps - 1
Orbitals(self) == 0 .. self.L - 1

Constructed == pc = "ready" /\ call = NoCall

(***************************************************************************)
(* C1.  After construction, for each spin channel and each irrep r:        *)
(* str2cnt[r][s] differs from -1 exactly when bit string s has Nel         *)
(* occupied bits and the product of the irreps of its occupied orbitals is *)
(* r; for those s, cnt2str[r][str2cnt[r][s]] = s; for every counter        *)
(* c < numPerIrrep[r], str2cnt[r][cnt2str[r][c]] = c; and the counters of  *)
(* a block are exactly 0 .. numPerIrrep[r] - 1.                            *)
(***************************************************************************)
C1_CountersAreBijection ==
  Constructed =>
    \A spin \in Spins : \A r \in Irreps(fci) :
      LET ch    == Channel(fci, spin)
          valid == ValidStrings(fci, ch.Nel, r)
      IN /\ DOMAIN ch.str2cnt[r] = AllStrings(fci)
         /\ \A s \in AllStrings(fci) : (ch.str2cnt[r][s] # -1) <=> (s \in valid)
         /\ \A s \in valid : /\ ch.str2cnt[r][s] \in 0 .. ch.numPerIrrep[r] - 1
                             /\ ch.cnt2str[r][ch.str2cnt[r][s]] = s
         /\ DOMAIN ch.cnt2str[r] = 0 .. ch.numPerIrrep[r] - 1
         /\ \A c \in 0 .. ch.numPerIrrep[r] - 1 :
              /\ ch.cnt2str[r][c] \in AllStrings(fci)
              /\ ch.str2cnt[r][ch.cnt2str[r][c]] = c
         /\ {ch.str2cnt[r][s] : s \in valid} = 0 .. ch.numPerIrrep[r] - 1

\* An instance with a block of two or more strings, another block that holds
\* strings, an empty block, and different electron counts in the two channels.
C1_Witness ==
  /\ Constructed
  /\ fci.Nel_up # fci.Nel_down
  /\ \E r1, r2, r3 \in Irreps(fci) :
       /\ r1 # r2
       /\ fci.numPerIrrep_up[r1] >= 2
       /\ fci.numPerIrrep_up[r2] >= 1
       /\ fci.numPerIrrep_up[r3] = 0
       /\ fci.numPerIrrep_down[r2] >= 1

(***************************************************************************)
(* C2.  In the lookup tables, for every irrep block r, every counter c of  *)
(* the block and every orbital pair (creator i, annihilator j), the sign   *)
(* is nonzero iff orbital i is occupied in cnt2str[r][c] and orbital j is  *)
(* unoccupied once i is removed.  Then the old irrep is                    *)
(* r x irrep(i) x irrep(j), and the old counter is the counter (never -1), *)
(* in that block, of the string with bit i cleared and bit j set, a string *)
(* with the channel's particle number and that irrep.  Otherwise the       *)
(* stored triple is (0,0,0).                                               *)
(***************************************************************************)
C2_LookupAllowedIff ==
  Constructed =>
    \A spin \in Spins : \A r \in Irreps(fci) :
      LET ch == Channel(fci, spin)
      IN /\ DOMAIN ch.lookup_sign[r] = 0 .. fci.L * fci.L * ch.numPerIrrep[r] - 1
         /\ \A c \in 0 .. ch.numPerIrrep[r] - 1 : \A i, j \in Orbitals(fci) :
              LET str     == ch.cnt2str[r][c]
                  occ     == Occupied(fci.L, str)
                  entry   == i + fci.L * (j + fci.L * c)
                  allowed == i \in occ /\ j \notin (occ \ {i})
                  old_irr == BitXor(r, BitXor(fci.orb2irrep[i], fci.orb2irrep[j]))
                  old_str == str - Pow2(i) + Pow2(j)
              IN /\ (ch.lookup_sign[r][entry] # 0) <=> allowed
                 /\ allowed =>
                      /\ ch.lookup_irrep[r][entry] = old_irr
                      /\ ch.lookup_cnt[r][entry] # -1
                      /\ ch.lookup_cnt[r][entry] = ch.str2cnt[old_irr][old_str]
                      /\ old_str \in ValidStrings(fci, ch.Nel, old_irr)
                 /\ ~allowed =>
                      /\ ch.lookup_sign[r][entry] = 0
                      /\ ch.lookup_irrep[r][entry] = 0
                      /\ ch.lookup_cnt[r][entry] = 0

\* An allowed entry that changes the irrep block, a diagonal one and a forbidden one.
C2_Witness ==
  /\ Constructed
  /\ \E r \in Irreps(fci) : \E e1, e2, e3 \in DOMAIN fci.lookup_sign_alpha[r] :
       /\ fci.lookup_sign_alpha[r][e1] # 0
       /\ fci.lookup_irrep_alpha[r][e1] # r
       /\ fci.lookup_cnt_alpha[r][e1] > 0
       /\ fci.lookup_sign_alpha[r][e2] # 0
       /\ e2 % fci.L = (e2 \div fci.L) % fci.L
       /\ fci.lookup_sign_alpha[r][e3] = 0

(***************************************************************************)
(* C3.  For every allowed lookup entry (irrep r, counter c, creator i,     *)
(* annihilator j) the sign is (-1)^k, k the number of occupied orbitals    *)
(* strictly between min(i,j) and max(i,j) in the bit string (the same in   *)
(* the old and the new string), and +1 when i = j; for both spin channels, *)
(* for i < j and for i > j.                                                *)
(***************************************************************************)
Between(i, j) == {orb \in Min2(i, j) + 1 .. Max2(i, j) - 1 : TRUE}

ParitySign(k) == IF k % 2 = 0 THEN 1 ELSE -1

C3_SignIsParityBetween ==
  Constructed =>
    \A spin \in Spins : \A r \in Irreps(fci) :
      LET ch == Channel(fci, spin)
      IN \A c \in 0 .. ch.numPerIrrep[r] - 1 : \A i, j \in Orbitals(fci) :
           LET str     == ch.cnt2str[r][c]
               entry   == i + fci.L * (j + fci.L * c)
               old_str == str - Pow2(i) + Pow2(j)
               k_new   == Cardinality(Between(i, j) \cap Occupied(fci.L, str))
               k_old   == Cardinality(Between(i, j) \cap Occupied(fci.L, old_str))
           IN ch.lookup_sign[r][entry] # 0 =>
                /\ k_new = k_old
                /\ ch.lookup_sign[r][entry] = ParitySign(k_new)
                /\ (i = j) => ch.lookup_sign[r][entry] = 1

\* Both spin channels hold a sign -1 with i < j and one with i > j.
C3_Witness ==
  /\ Constructed
  /\ \A spin \in Spins :
       LET ch == Channel(fci, spin)
       IN \E r1, r2 \in Irreps(fci) :
            /\ \E e \in DOMAIN ch.lookup_sign[r1] :
                 ch.lookup_sign[r1][e] = -1 /\ e % fci.L < (e \div fci.L) % fci.L
            /\ \E e \in DOMAIN ch.lookup_sign[r2] :
                 ch.lookup_sign[r2][e] = -1 /\ e % fci.L > (e \div fci.L) % fci.L

(***************************************************************************)
(* C7.  For every center irrep c: irrep_center_jumps[c][0] = 0, the        *)
(* difference irrep_center_jumps[c][u+1] - irrep_center_jumps[c][u] is     *)
(* numPerIrrep_up[u] * numPerIrrep_down[u x c x target] for every up irrep *)
(* u, and getVecLength(c) is the sum over the up irreps u of the number of *)
(* up determinants in u times the number of down determinants in           *)
(* u x c x target.                                                         *)
(***************************************************************************)
C7_JumpsAndVecLength ==
  Constructed =>
    \A c \in Irreps(fci) :
      LET down_of(u) == getIrrepProduct(u, getIrrepProduct(c, fci.TargetIrrep))
      IN /\ fci.irrep_center_jumps[c][0] = 0
         /\ \A u \in Irreps(fci) :
              fci.irrep_center_jumps[c][u + 1] - fci.irrep_center_jumps[c][u]
                = fci.numPerIrrep_up[u] * fci.numPerIrrep_down[down_of(u)]
         /\ getVecLength(fci, c) = fci.irrep_center_jumps[c][fci.NumIrreps]
         /\ getVecLength(fci, c)
              = SumFcn([u \in Irreps(fci) |->
                          Cardinality(ValidStrings(fci, fci.Nel_up, u))
                            * Cardinality(ValidStrings(fci, fci.Nel_down, down_of(u)))],
                       Irreps(fci))

\* An instance with four irreps whose vector lengths differ between two center irreps,
\* with an empty and a non-empty block in the jump table of a center irrep other than 0.
C7_Witness ==
  /\ Constructed
  /\ fci.NumIrreps = 4
  /\ \E c1, c2 \in Irreps(fci) :
       /\ getVecLength(fci, c1) # getVecLength(fci, c2)
       /\ getVecLength(fci, c1) > 0 /\ getVecLength(fci, c2) > 0
  /\ \E c \in Irreps(fci) \ {0} : \E u1, u2 \in Irreps(fci) :
       /\ fci.irrep_center_jumps[c][u1 + 1] = fci.irrep_center_jumps[c][u1]
       /\ fci.irrep_center_jumps[c][u2 + 1] > fci.irrep_center_jumps[c][u2] + 1

(***************************************************************************)
(* C8.  The addressing of the CI vector is a bijection.                    *)
(* getUpIrrepOfCounter(c, counter) is the one up irrep u with              *)
(* jumps[c][u] <= counter < jumps[c][u+1], also when blocks are empty;     *)
(* getBitsOfCounter(c, .) maps the counters 0 .. getVecLength(c) - 1       *)
(* one-to-one onto the pairs of an up string with Nel_up electrons and a   *)
(* down string with Nel_down electrons whose irreps multiply to            *)
(* c x target; and for c = 0 getFCIcoeff on the bits that                  *)
(* getBitsOfCounter(0, counter) returns reads v[counter].                  *)
(***************************************************************************)
\* The pairs << up string, down string >> of the sector of center irrep c.
SectorPairs(self, c) ==
  UNION { ValidStrings(self, self.Nel_up, u)
            \X ValidStrings(self, self.Nel_down,
                            getIrrepProduct(u, getIrrepProduct(c, self.TargetIrrep))) :
          u \in Irreps(self) }

StringsOfCounter(self, c, counter) ==
  LET bits == getBitsOfCounter(self, c, counter)
  IN << bits2str(self.L, bits.bits_up), bits2str(self.L, bits.bits_down) >>

C8_AddressingIsBijection ==
  /\ Constructed =>
       \A c \in Irreps(fci) :
         LET counters == 0 .. getVecLength(fci, c) - 1
         IN /\ { StringsOfCounter(fci, c, k) : k \in counters } = SectorPairs(fci, c)
            /\ \A k1, k2 \in counters :
                 StringsOfCounter(fci, c, k1) = StringsOfCounter(fci, c, k2) => k1 = k2
  /\ (pc = "ready" /\ call.op = "getBitsOfCounter") =>
       /\ call.irrep_up \in Irreps(fci)
       /\ fci.irrep_center_jumps[call.irrep_center][call.irrep_up] <= call.counter
       /\ call.counter < fci.irrep_center_jumps[call.irrep_center][call.irrep_up + 1]
       /\ \A u \in Irreps(fci) :
            ( /\ fci.irrep_center_jumps[call.irrep_center][u] <= call.counter
              /\ call.counter < fci.irrep_center_jumps[call.irrep_center][u + 1] )
              => u = call.irrep_up
       /\ call.bits = getBitsOfCounter(fci, call.irrep_center, call.counter)
       /\ bits2str(fci.L, call.bits.bits_up) \in ValidStrings(fci, fci.Nel_up, call.irrep_up)
  /\ (pc = "ready" /\ call.op = "getFCIcoeff") =>
       \A counter \in 0 .. getVecLength(fci, 0) - 1 :
         getBitsOfCounter(fci, 0, counter)
             = [bits_up |-> call.bits_up, bits_down |-> call.bits_down]
           => /\ call.index = counter
              /\ call.result = RampVector(getVecLength(fci, 0))[counter]

\* getFCIcoeff has read the vector at a counter beyond the first down string of a block
\* with unequal numbers of up and down strings, with an empty block below it.
C8_Witness ==
  /\ pc = "ready"
  /\ call.op = "getFCIcoeff"
  /\ call.index > 0
  /\ call.index < getVecLength(fci, 0)
  /\ LET irrep_up == getUpIrrepOfCounter(fci, 0, call.index)
     IN /\ irrep_up >= 2
        /\ call.index > fci.irrep_center_jumps[0][irrep_up]
        /\ \E u \in 0 .. irrep_up - 1 :
             fci.irrep_center_jumps[0][u + 1] = fci.irrep_center_jumps[0][u]
        /\ fci.numPerIrrep_up[irrep_up]
             # fci.numPerIrrep_down[getIrrepProduct(irrep_up, fci.TargetIrrep)]
        /\ call.index - fci.irrep_center_jumps[0][irrep_up] >= fci.numPerIrrep_up[irrep_up]

(***************************************************************************)
(* C9.  After construction, at every verbosity, HXVsizeWorkspace is the    *)
(* maximum over the center irreps c of irrep_center_num[c] *                *)
(* getVecLength(c), clamped by the budget:                                 *)
(* min( maximum, ceil( maxMemWorkMB * 1e6 / ( 2 * sizeof(double) ) ) );    *)
(* and with a budget below the unclamped size HamTimesVec iterates in      *)
(* chunks and does not fail.                                               *)
(***************************************************************************)
UnclampedWorkspace(self) ==
  SetMax({self.irrep_center_num[c] * getVecLength(self, c) : c \in Irreps(self)})

BudgetInDoubles(self) == CeilDiv(self.maxMemWorkMB, 2 * SizeofDouble)

C9_WorkspaceClampedByBudget ==
  /\ Constructed =>
       fci.HXVsizeWorkspace = Min2(UnclampedWorkspace(fci), BudgetInDoubles(fci))
  /\ ( /\ pc = "ready"
       /\ call.op = "HamTimesVec"
       /\ BudgetInDoubles(fci) < UnclampedWorkspace(fci) )
       => call.division = "defined"

(***************************************************************************)
(* C10.  The output of HamTimesVec does not depend on the chunking: with   *)
(* a working buffer that makes a vector be processed in several chunks,    *)
(* the output equals the output of the instance built from the same        *)
(* integrals, electron counts and target irrep with an unclamped buffer,   *)
(* on the same input.                                                      *)
(***************************************************************************)
Chunked(self) == \E c \in Irreps(self) : NumIterations(self, c) >= 2

UnclampedInstance ==
  FCI(args.Ham, args.theNel_up, args.theNel_down, args.TargetIrrep_in,
      AmpleMemory, args.FCIverbose_in)

C10_ChunkingKeepsOutput ==
  ( /\ pc = "ready"
    /\ call.op = "HamTimesVec"
    /\ call.division = "defined"
    /\ Chunked(fci) )
    => /\ \A c \in Irreps(UnclampedInstance) : NumIterations(UnclampedInstance, c) <= 1
       /\ call.output = HamTimesVec(UnclampedInstance, call.input)

\* HamTimesVec has run on the ramp vector with three or more chunks at center irrep 0
\* and, at another center irrep, chunks of two or more counters of which the last is
\* shorter, and the output has an element that is not 0.
C10_Witness ==
  /\ pc = "ready"
  /\ call.op = "HamTimesVec"
  /\ call.division = "defined"
  /\ call.input = RampVector(getVecLength(fci, 0))
  /\ NumIterations(fci, 0) >= 3
  /\ \E c \in Irreps(fci) \ {0} :
       /\ NumIterations(fci, c) >= 2
       /\ SpacePerVectorpiece(fci, c) >= 2
       /\ getVecLength(fci, c) % SpacePerVectorpiece(fci, c) # 0
  /\ \E k \in DOMAIN call.output : call.output[k] # 0

(***************************************************************************)
(* C4.  apply_excitation( orig , result , crea , anni , I ) writes, for    *)
(* every determinant ( up' , down' ) of the sector with target irrep       *)
(* I x irrep( crea ) x irrep( anni ), the sum over the two spin channels   *)
(* of sign * orig[ ( up , down ) ]: for the alpha channel up is up' with   *)
(* bit crea cleared and bit anni set and down = down', for the beta        *)
(* channel likewise on down'; the sign is the parity of the occupied       *)
(* orbitals strictly between crea and anni, and a channel contributes 0    *)
(* when crea is empty or anni stays occupied once crea is cleared.  Every  *)
(* index read in orig is below the length of the source sector and every   *)
(* index written in result is below the length of the result sector.       *)
(***************************************************************************)
\* The string that a^+_crea a_anni turns into new_string, -1 when there is none.
ExcitedFrom(Lval, new_string, crea, anni) ==
  LET occ == Occupied(Lval, new_string)
  IN IF crea \in occ /\ anni \notin (occ \ {crea})
     THEN new_string - Pow2(crea) + Pow2(anni)
     ELSE -1

ExcitationSign(Lval, new_string, crea, anni) ==
  ParitySign(Cardinality(Occupied(Lval, new_string) \cap Between(crea, anni)))

\* The counter of a pair of strings in the sector of center irrep c.
CounterOfStrings(self, c, pair) ==
  CHOOSE k \in 0 .. getVecLength(self, c) - 1 : StringsOfCounter(self, c, k) = pair

\* The contribution of one spin channel to the result at the pair << up' , down' >>.
ChannelTerm(self, orig_vector, orig_center, spin, pair, crea, anni) ==
  LET same == IF spin = "up" THEN pair[1] ELSE pair[2]
      from == ExcitedFrom(self.L, same, crea, anni)
  IN IF from = -1 THEN 0
     ELSE ExcitationSign(self.L, same, crea, anni)
            * orig_vector[CounterOfStrings(self, orig_center,
                            IF spin = "up" THEN <<from, pair[2]>> ELSE <<pair[1], from>>)]

ExcitationCenters(self, crea, anni, orig_target_irrep) ==
  [ orig   |-> BitXor(self.TargetIrrep, orig_target_irrep),
    result |-> BitXor(self.TargetIrrep,
                      BitXor(orig_target_irrep,
                             BitXor(self.orb2irrep[crea], self.orb2irrep[anni]))) ]

C4_ExcitationImage ==
  (pc = "ready" /\ call.op = "apply_excitation") =>
    LET centers == ExcitationCenters(fci, call.crea, call.anni, call.orig_target_irrep)
        result_counters == 0 .. getVecLength(fci, centers.result) - 1
    IN /\ DOMAIN call.orig_vector = 0 .. getVecLength(fci, centers.orig) - 1
       /\ DOMAIN call.result_vector = result_counters
       /\ \A loc \in result_counters :
            LET pair == StringsOfCounter(fci, centers.result, loc)
            IN call.result_vector[loc]
                 = ChannelTerm(fci, call.orig_vector, centers.orig, "up", pair,
                               call.crea, call.anni)
                   + ChannelTerm(fci, call.orig_vector, centers.orig, "down", pair,
                                 call.crea, call.anni)
       /\ call.reads \subseteq DOMAIN call.orig_vector
       /\ call.writes \subseteq result_counters

\* apply_excitation has run with crea # anni between two different sectors, and some
\* determinant of the result has a negative term from the alpha channel and a term
\* other than 0 from the beta channel.
C4_Witness ==
  /\ pc = "ready"
  /\ call.op = "apply_excitation"
  /\ call.crea # call.anni
  /\ LET centers == ExcitationCenters(fci, call.crea, call.anni, call.orig_target_irrep)
     IN /\ centers.orig # centers.result
        /\ \E loc \in DOMAIN call.result_vector :
             LET pair == StringsOfCounter(fci, centers.result, loc)
             IN /\ ChannelTerm(fci, call.orig_vector, centers.orig, "up", pair,
                               call.crea, call.anni) < 0
                /\ ChannelTerm(fci, call.orig_vector, centers.orig, "down", pair,
                               call.crea, call.anni) # 0
                /\ call.result_vector[loc] # 0

(***************************************************************************)
(* C5.  The dense matrix whose column k is HamTimesVec of the k-th unit    *)
(* vector is symmetric, M[ r ][ k ] = M[ k ][ r ] for all r, k below       *)
(* getVecLength( 0 ), and its diagonal is the output of DiagHam,           *)
(* M[ k ][ k ] = DiagHam[ k ], for integrals with a symmetric one-body     *)
(* matrix and an 8-fold symmetric two-body tensor.                         *)
(***************************************************************************)
C5_DenseMatrixSymmetricWithDiagHam ==
  (pc = "ready" /\ call.op = "CheckHamDEBUG" /\ ~call.divided_by_zero) =>
    LET counters == 0 .. call.vecLength - 1
    IN /\ call.vecLength = getVecLength(fci, 0)
       /\ DOMAIN call.diag = counters
       /\ \A row, col \in counters :
            call.HamHXV[row + call.vecLength * col] = call.HamHXV[col + call.vecLength * row]
       /\ \A row \in counters :
            call.HamHXV[row + call.vecLength * row] = call.diag[row]

\* The dense matrix of a system with L = 2, target irrep 0 and one electron of each
\* spin has been built: 4 determinants, an off-diagonal element other than 0 and two
\* different diagonal elements.
C5_Witness ==
  /\ pc = "ready"
  /\ call.op = "CheckHamDEBUG"
  /\ ~call.divided_by_zero
  /\ fci.L = 2 /\ fci.TargetIrrep = 0 /\ fci.Nel_up = 1 /\ fci.Nel_down = 1
  /\ call.vecLength = 4
  /\ \E row, col \in 0 .. call.vecLength - 1 :
       /\ row # col
       /\ call.HamHXV[row + call.vecLength * col] # 0
       /\ call.diag[row] # call.diag[col]

(***************************************************************************)
(* C6.  For every bra and ket of the target sector GetMatrixElement equals *)
(* entry [ row( bra ) ][ col( ket ) ] of the dense matrix built by         *)
(* HamTimesVec on the unit vectors; it returns 0 when bra and ket differ   *)
(* by more than two electron moves in total or when the numbers of created *)
(* and annihilated orbitals differ within a spin channel; and it never     *)
(* stores more than two orbitals in any of the four 2-element sub-arrays   *)
(* of the 8-element work array.                                            *)
(***************************************************************************)
\* The orbitals where the ket has an electron and the bra has none, and the reverse.
Annihilated(bits_bra, bits_ket) ==
  {orb \in DOMAIN bits_ket : bits_ket[orb] # 0 /\ bits_bra[orb] = 0}

Created(bits_bra, bits_ket) ==
  {orb \in DOMAIN bits_ket : bits_ket[orb] = 0 /\ bits_bra[orb] # 0}

\* What the claim says of one call of GetMatrixElement.
ZeroAndStoresAsClaimed(bits_bra_up, bits_bra_down, bits_ket_up, bits_ket_down, returned) ==
  LET annih_up   == Cardinality(Annihilated(bits_bra_up, bits_ket_up))
      creat_up   == Cardinality(Created(bits_bra_up, bits_ket_up))
      annih_down == Cardinality(Annihilated(bits_bra_down, bits_ket_down))
      creat_down == Cardinality(Created(bits_bra_down, bits_ket_down))
  IN /\ ( \/ annih_up # creat_up
          \/ annih_down # creat_down
          \/ annih_up + annih_down > 2
          \/ creat_up + creat_down > 2 ) => returned.result = 0
     /\ \A store \in returned.stores : store[1] \in 0 .. 3 /\ store[2] \in 0 .. 1

C6_MatrixElementIsDenseEntry ==
  /\ (pc = "ready" /\ call.op = "CheckHamDEBUG" /\ ~call.divided_by_zero) =>
       \A row, col \in 0 .. call.vecLength - 1 :
         LET bra == getBitsOfCounter(fci, 0, row)
             ket == getBitsOfCounter(fci, 0, col)
             returned == call.HamMXELEM[row + call.vecLength * col]
         IN /\ returned.result = call.HamHXV[row + call.vecLength * col]
            /\ ZeroAndStoresAsClaimed(bra.bits_up, bra.bits_down, ket.bits_up,
                                      ket.bits_down, returned)
  /\ (pc = "ready" /\ call.op = "GetMatrixElement") =>
       ZeroAndStoresAsClaimed(call.bits_bra_up, call.bits_bra_down, call.bits_ket_up,
                              call.bits_ket_down, call)

\* The matrix elements of a system with two electrons of each spin in four orbitals
\* have been compared with the dense matrix: one pair differs by two moves of up
\* electrons, one by a move in each channel, both with a negative and with a positive
\* element, and one pair differs by three moves.
C6_Witness ==
  /\ pc = "ready"
  /\ call.op = "CheckHamDEBUG"
  /\ ~call.divided_by_zero
  /\ fci.Nel_up = 2 /\ fci.Nel_down = 2
  /\ LET counters == 0 .. call.vecLength - 1
         Moves(row, col) ==
           LET bra == getBitsOfCounter(fci, 0, row)
               ket == getBitsOfCounter(fci, 0, col)
           IN << Cardinality(Annihilated(bra.bits_up, ket.bits_up)),
                 Cardinality(Annihilated(bra.bits_down, ket.bits_down)) >>
         Element(row, col) == call.HamMXELEM[row + call.vecLength * col].result
     IN /\ \E row, col \in counters : Moves(row, col) = <<2, 0>> /\ Element(row, col) < 0
        /\ \E row, col \in counters : Moves(row, col) = <<2, 0>> /\ Element(row, col) > 0
        /\ \E row, col \in counters : Moves(row, col) = <<1, 1>> /\ Element(row, col) < 0
        /\ \E row, col \in counters : Moves(row, col) = <<1, 1>> /\ Element(row, col) > 0
        /\ \E row, col \in counters :
             /\ Moves(row, col) = <<2, 1>>
             /\ Element(row, col) = 0
             /\ call.HamHXV[row + call.vecLength * col] = 0

(***************************************************************************)
(* C11.  In the scatter step of HamTimesVec, within each parallel loop     *)
(* (one pair, one spin channel, one direction, one chunk) the map          *)
(* veccounter -> location_new restricted to the entries with a sign other  *)
(* than 0 is injective: no two iterations of one loop write the same       *)
(* element of output.                                                      *)
(***************************************************************************)
\* The parallel loops of the scatter step at center irrep c: pair, spin, creator and
\* annihilator of the lookup entry, as ScatterPairs runs them.
ScatterLoops(self, c) ==
  { [pair |-> pair, spin |-> spin, crea |-> q[1], anni |-> q[2]] :
      <<pair, spin, q>> \in
        { t \in (0 .. self.irrep_center_num[c] - 1) \X Spins \X (Orbitals(self) \X Orbitals(self)) :
            LET orbi == self.irrep_center_crea_orb[c][t[1]]
                orbj == self.irrep_center_anni_orb[c][t[1]]
            IN \/ t[3] = <<orbj, orbi>>
               \/ (orbj > orbi /\ t[3] = <<orbi, orbj>>) } }

\* The chunks of center irrep c.
Chunks(self, c) ==
  { ChunkRange(self, c, iteration) : iteration \in 0 .. NumIterations(self, c) - 1 }

\* The iterations of loop lp over the chunk that write to output.
Writers(self, c, lp, range) ==
  { veccounter \in range[1] .. range[2] - 1 :
      ScatterTarget(self, c, lp.spin, lp.crea, lp.anni, veccounter).sign # 0 }

C11_ScatterLoopInjective ==
  Constructed =>
    \A c \in Irreps(fci) : \A range \in Chunks(fci, c) : \A lp \in ScatterLoops(fci, c) :
      \A v1, v2 \in Writers(fci, c, lp, range) :
        ScatterTarget(fci, c, lp.spin, lp.crea, lp.anni, v1).location_new
          = ScatterTarget(fci, c, lp.spin, lp.crea, lp.anni, v2).location_new
          => v1 = v2

\* An instance whose HamTimesVec runs in two or more chunks at some center irrep, with
\* a chunk in which a loop of each spin channel between two different orbitals has two
\* or more writing iterations.
C11_Witness ==
  /\ Constructed
  /\ \E c \in Irreps(fci) :
       /\ NumIterations(fci, c) >= 2
       /\ \E range \in Chunks(fci, c) : \A spin \in Spins :
            \E lp \in ScatterLoops(fci, c) :
              /\ lp.spin = spin
              /\ lp.crea # lp.anni
              /\ Cardinality(Writers(fci, c, lp, range)) >= 2

(***************************************************************************)
(* C12.  The working buffers of the Hamiltonian action are allocated per   *)
(* call and never shared: two HamTimesVec calls that run at the same time  *)
(* on one instance with distinct input and output vectors never write or   *)
(* read a common working-buffer location, and each returns the output it   *)
(* returns when run alone.                                                 *)
(***************************************************************************)
C12_ConcurrentCallsShareNoBuffer ==
  (pc = "ready" /\ call.op = "HamTimesVec x 2") =>
    /\ call.thread[1].touched \cap call.thread[2].touched = {}
    /\ \A t \in Threads :
         call.thread[t].step = "done"
           => call.thread[t].output = HamTimesVec(fci, call.thread[t].input)

(***************************************************************************)
(* C13.  GSDavidson follows the protocol with the solver: the first        *)
(* fetched instruction must be 'A' and is answered once, by the initial    *)
(* vector (a copy of the caller's buffer if there is one, a random fill    *)
(* otherwise) and the diagonal of DiagHam; every fetched 'B' is answered   *)
(* by exactly one HamTimesVec( whichpointers[ 0 ] , whichpointers[ 1 ] )   *)
(* before the next fetch; the loop ends at the first instruction that is   *)
(* not 'B', which must be 'C'; any other instruction at either point is a  *)
(* fatal assertion.  On 'C' the function returns eigenvalue + core         *)
(* constant and copies the eigenvector to the caller's buffer iff that     *)
(* buffer is not NULL.                                                     *)
(***************************************************************************)
C13_DavidsonProtocol ==
  (pc = "ready" /\ call.op = "GSDavidson") =>
    LET n == Len(call.fetched)
        vecLength == getVecLength(fci, 0)
    IN /\ Len(call.responses) = n
       /\ n = 0 => call.status = "running"
       /\ n >= 1 =>
            IF call.fetched[1] = "A"
            THEN /\ call.responses[1].did = "initial vector and DiagHam"
                 /\ IF call.inoutput_in.null
                    THEN call.responses[1].vector \in FillRandom(vecLength)
                    ELSE call.responses[1].vector = call.inoutput_in.data
                 /\ call.responses[1].diag = DiagHam(fci)
                 /\ n = 1 => call.status = "running"
            ELSE /\ call.responses[1].did = "assert fails"
                 /\ call.status = "aborted"
                 /\ n = 1
       /\ \A i \in 2 .. n :
            /\ \A j \in 2 .. i - 1 : call.fetched[j] = "B"
            /\ call.fetched[i] = "B" =>
                 /\ call.responses[i].did = "HamTimesVec"
                 /\ call.responses[i].output = HamTimesVec(fci, call.responses[i].input)
                 /\ i = n => call.status = "running"
            /\ call.fetched[i] = "C" =>
                 /\ call.responses[i].did = "return"
                 /\ call.status = "returned"
                 /\ call.energy = call.responses[i].eigenvalue + getEconst(args.Ham)
                 /\ call.inoutput = IF call.inoutput_in.null THEN NullPointer
                                    ELSE PointerTo(call.responses[i].eigenvector)
            /\ call.fetched[i] \notin {"B", "C"} =>
                 /\ call.responses[i].did = "assert fails"
                 /\ call.status = "aborted"
       /\ call.status # "returned" =>
            /\ call.inoutput = call.inoutput_in
            /\ call.energy = Uninitialized

\* GSDavidson has returned after 'A', two 'B' and 'C' with a caller's buffer that now
\* holds an eigenvector other than the initial vector.
C13_Witness ==
  /\ pc = "ready"
  /\ call.op = "GSDavidson"
  /\ call.status = "returned"
  /\ call.fetched = <<"A", "B", "B", "C">>
  /\ ~call.inoutput_in.null
  /\ call.inoutput.data # call.inoutput_in.data
  /\ call.responses[2].output # call.responses[3].output


(***************************************************************************)
(* C14.  CGCoreSolver enforces an iteration cap: it ends after a bounded   *)
(* number of iterations even when the residual never drops below the       *)
(* threshold, so every running CGSolveSystem returns.                      *)
(***************************************************************************)
C14_CoreSolverTerminates ==
  (call.op = "CGSolveSystem" /\ call.status = "running")
    ~> (call.op = "CGSolveSystem" /\ call.status = "returned")

(***************************************************************************)
(* C15.  A CGSolveSystem call with eta = 0, a NULL RealSol or a NULL       *)
(* ImagSol ends in a failed assert: no CG iteration is run and neither     *)
(* RealSol nor ImagSol is written.  Every other call passes the asserts.   *)
(***************************************************************************)
C15_InvalidSolveIsFatal ==
  call.op = "CGSolveSystem" =>
    IF call.eta = 0 \/ call.RealSol.null \/ call.ImagSol.null
    THEN /\ call.status = "aborted"
         /\ ~call.iterated
         /\ call.written = {}
    ELSE call.status # "aborted"

\* A call with eta = 0 and both buffers given, ended by the assert.
C15_Witness ==
  /\ call.op = "CGSolveSystem"
  /\ call.eta = 0
  /\ ~call.RealSol.null
  /\ ~call.ImagSol.null
  /\ call.status = "aborted"


(***************************************************************************)
(* C16.  The constructor checks Nel_up <= L, Nel_down <= L and             *)
(* maxMemWorkMB > 0 before it builds any table or copies any integral: a   *)
(* violation ends the construction with nothing built but the three basic  *)
(* fields, and valid arguments pass the checks.                            *)
(***************************************************************************)
C16_ConstructorPreconditions ==
  pc # "new" =>
    IF \/ args.theNel_up > args.Ham.L
       \/ args.theNel_down > args.Ham.L
       \/ args.maxMemWorkMB_in <= 0
    THEN /\ pc = "aborted"
         /\ DOMAIN fci = {"FCIverbose", "maxMemWorkMB", "L"}
    ELSE /\ pc = "ready"
         /\ {"orb2irrep", "Gmat", "ERI", "str2cnt_up", "lookup_cnt_alpha",
             "irrep_center_jumps"} \subseteq DOMAIN fci

\* A construction that ended in the assert on the working memory alone.
C16_Witness ==
  /\ pc = "aborted"
  /\ args.theNel_up <= args.Ham.L
  /\ args.theNel_down <= args.Ham.L
  /\ args.maxMemWorkMB_in = 0

(***************************************************************************)
(* C17.  apply_excitation checks that crea and anni lie in 0 .. L - 1      *)
(* before it reads any orbital irrep or lookup entry: a call with an index *)
(* outside the range ends in the check and reads nothing outside.          *)
(***************************************************************************)
C17_ExcitationOrbitalsChecked ==
  (/\ call.op = "apply_excitation"
   /\ (call.crea \notin 0 .. fci.L - 1 \/ call.anni \notin 0 .. fci.L - 1))
    => /\ call.status = "aborted"
       /\ call.outside = {}


(***************************************************************************)
(* C18.  ActWithSecondQuantizedOperator returns normally with thisVector   *)
(* all zero when the target irreps do not match or the electron counts of  *)
(* the two instances do not differ by exactly one in the spin channel of   *)
(* the operator; an operator other than 'C' and 'A', orbIndex >= L and     *)
(* instances with different L end in an assert.                            *)
(***************************************************************************)
C18_ForbiddenOperatorGivesZero ==
  call.op = "ActWithSecondQuantizedOperator" =>
    LET mine   == IF call.isUp THEN fci.Nel_up ELSE fci.Nel_down
        theirs == IF call.isUp THEN call.other.Nel_up ELSE call.other.Nel_down
    IN IF \/ call.whichOperator \notin {"C", "A"}
          \/ call.orbIndex >= fci.L
          \/ call.other.L # fci.L
       THEN /\ call.status = "aborted"
            /\ call.thisVector = call.thisVector_in
       ELSE /\ call.status = "returned"
            /\ DOMAIN call.thisVector = 0 .. getVecLength(fci, 0) - 1
            /\ ( \/ fci.TargetIrrep
                      # BitXor(call.other.TargetIrrep, fci.orb2irrep[call.orbIndex])
                 \/ (mine - theirs \notin {1, -1}) )
                 => \A counter \in DOMAIN call.thisVector : call.thisVector[counter] = 0

\* A creator on an occupied orbital, target irreps that match, the same number of
\* electrons in both instances: the vector written over the caller's is zero.
C18_Witness ==
  /\ call.op = "ActWithSecondQuantizedOperator"
  /\ call.status = "returned"
  /\ call.whichOperator = "C"
  /\ call.isUp
  /\ fci.TargetIrrep = BitXor(call.other.TargetIrrep, fci.orb2irrep[call.orbIndex])
  /\ call.other.Nel_up = fci.Nel_up
  /\ call.other.Nel_down = fci.Nel_down
  /\ getVecLength(fci, 0) >= 2
  /\ \E counter \in DOMAIN call.thisVector :
       getBitsOfCounter(fci, 0, counter).bits_up[call.orbIndex] = 1
  /\ \A counter \in DOMAIN call.thisVector :
       call.thisVector[counter] = 0 /\ call.thisVector_in[counter] # 0


\* The orbitals at the six positions of element idx of three_rdm.
ThreeRDMTuple(L0, idx) ==
  << idx % L0, (idx \div L0) % L0, (idx \div (L0 * L0)) % L0,
     (idx \div (L0 * L0 * L0)) % L0, (idx \div (L0 * L0 * L0 * L0)) % L0,
     idx \div (L0 * L0 * L0 * L0 * L0) >>

\* Gamma_{ijk,lmn} under the permutations of the pairs (i,l), (j,m), (k,n) and the
\* exchange of ijk with lmn.
TwelveImages(t) ==
  LET pairs == { <<t[1], t[2], t[3], t[4], t[5], t[6]>>, <<t[2], t[1], t[3], t[5], t[4], t[6]>>,
                 <<t[1], t[3], t[2], t[4], t[6], t[5]>>, <<t[3], t[2], t[1], t[6], t[5], t[4]>>,
                 <<t[2], t[3], t[1], t[5], t[6], t[4]>>, <<t[3], t[1], t[2], t[6], t[4], t[5]>> }
  IN pairs \cup { <<u[4], u[5], u[6], u[1], u[2], u[3]>> : u \in pairs }

\* crea3 >= crea2 >= anni1 and crea1, anni2, anni3 >= anni1.
CanonicalTriple(t) ==
  t[1] >= t[2] /\ t[2] >= t[6] /\ t[3] >= t[6] /\ t[4] >= t[6] /\ t[5] >= t[6]

(***************************************************************************)
(* C19.  The output of Fill3RDM has the 12-fold permutation symmetry, and  *)
(* every tuple whose irreps multiply to the identity lies in the orbit of  *)
(* a canonical tuple (crea3 >= crea2 >= anni1 and crea1, anni2, anni3 >=   *)
(* anni1), whose directly computed value it holds.                         *)
(***************************************************************************)
C19_ThreeRDMSymmetric ==
  (call.op = "Fill3RDM" /\ call.status = "returned") =>
    LET L0 == fci.L
        at(t) == ThreeRDMIndex(L0, t[1], t[2], t[3], t[4], t[5], t[6])
    IN /\ DOMAIN call.three_rdm = 0 .. L0 * L0 * L0 * L0 * L0 * L0 - 1
       /\ \A idx \in DOMAIN call.three_rdm :
            LET t == ThreeRDMTuple(L0, idx)
            IN /\ at(t) = idx
               /\ \A u \in TwelveImages(t) : call.three_rdm[at(u)] = call.three_rdm[idx]
               /\ (BitXor(BitXor(BitXor(fci.orb2irrep[t[1]], fci.orb2irrep[t[2]]),
                                 BitXor(fci.orb2irrep[t[3]], fci.orb2irrep[t[4]])),
                          BitXor(fci.orb2irrep[t[5]], fci.orb2irrep[t[6]])) = 0)
                    => \E u \in TwelveImages(t) :
                         /\ CanonicalTriple(u)
                         /\ call.three_rdm[idx] = call.direct[at(u)]

\* Three orbitals in two irreps, and a nonzero element with three different creators
\* that the first loop nest leaves at zero.
C19_Witness ==
  /\ call.op = "Fill3RDM"
  /\ call.status = "returned"
  /\ fci.L = 3
  /\ fci.NumIrreps = 2
  /\ \E idx \in DOMAIN call.three_rdm :
       LET t == ThreeRDMTuple(fci.L, idx)
       IN /\ ~CanonicalTriple(t)
          /\ {t[1], t[2], t[3]} = 0 .. 2
          /\ call.direct[idx] = 0
          /\ call.three_rdm[idx] # 0

\* The orbitals at the four positions of element idx of two_rdm.
TwoRDMTuple(L0, idx) ==
  <<idx % L0, (idx \div L0) % L0, (idx \div (L0 * L0)) % L0, idx \div (L0 * L0 * L0)>>

TwoRDMIndex(L0, t) == t[1] + L0 * (t[2] + L0 * (t[3] + L0 * t[4]))

\* [i,j,k,l], [j,i,l,k], [k,l,i,j] and [l,k,j,i].
FourImages(t) ==
  { t, <<t[2], t[1], t[4], t[3]>>, <<t[3], t[4], t[1], t[2]>>, <<t[4], t[3], t[2], t[1]>> }

\* The last index is the least of the four.
CanonicalPair(t) == t[1] >= t[4] /\ t[2] >= t[4] /\ t[3] >= t[4]

(***************************************************************************)
(* C20.  The output of Fill2RDM satisfies two_rdm[i,j,k,l] =               *)
(* two_rdm[j,i,l,k] = two_rdm[k,l,i,j] = two_rdm[l,k,j,i], and every       *)
(* element whose irreps multiply to the identity is the directly computed  *)
(* value of an element whose last index is the least of its four: its own, *)
(* or the one the symmetrization assigned to it.                           *)
(***************************************************************************)
C20_TwoRDMSymmetric ==
  (call.op = "Fill2RDM" /\ call.status = "returned") =>
    LET L0 == fci.L
    IN /\ DOMAIN call.two_rdm = 0 .. L0 * L0 * L0 * L0 - 1
       /\ \A idx \in DOMAIN call.two_rdm :
            LET t == TwoRDMTuple(L0, idx)
            IN /\ TwoRDMIndex(L0, t) = idx
               /\ \A u \in FourImages(t) :
                    call.two_rdm[TwoRDMIndex(L0, u)] = call.two_rdm[idx]
               /\ CanonicalPair(t) => call.two_rdm[idx] = call.direct[idx]
               /\ (BitXor(BitXor(fci.orb2irrep[t[1]], fci.orb2irrep[t[2]]),
                          BitXor(fci.orb2irrep[t[3]], fci.orb2irrep[t[4]])) = 0)
                    => \E u \in FourImages(t) :
                         /\ CanonicalPair(u)
                         /\ call.two_rdm[idx] = call.direct[TwoRDMIndex(L0, u)]

\* Three orbitals in two irreps, and a nonzero element that the first loop nest
\* leaves at zero and the symmetrization assigns.
C20_Witness ==
  /\ call.op = "Fill2RDM"
  /\ call.status = "returned"
  /\ fci.L = 3
  /\ fci.NumIrreps = 2
  /\ \E idx \in DOMAIN call.two_rdm :
       LET t == TwoRDMTuple(fci.L, idx)
       IN /\ ~CanonicalPair(t)
          /\ Cardinality({t[1], t[2], t[3], t[4]}) = 3
          /\ call.direct[idx] = 0
          /\ call.two_rdm[idx] # 0

\* S+ applied to a vector of the instance: for every orbital, a down electron is
\* annihilated into the instance with one down electron less, and an up electron is
\* created from there into the instance with one up electron more.
SpinRaised(self, Ham, vector) ==
  IF self.Nel_down = 0 \/ self.Nel_up = self.L
  THEN << >>
  ELSE LET top == FCI(Ham, self.Nel_up + 1, self.Nel_down - 1, self.TargetIrrep,
                      AmpleMemory, 0)
           part(orb) ==
             LET mid == FCI(Ham, self.Nel_up, self.Nel_down - 1,
                            getIrrepProduct(self.TargetIrrep, getOrb2Irrep(self, orb)),
                            AmpleMemory, 0)
                 annihilated ==
                   ActWithSecondQuantizedOperator(mid, "A", FALSE, orb, << >>, self,
                                                  vector).thisVector
             IN ActWithSecondQuantizedOperator(top, "C", TRUE, orb, << >>, mid,
                                               annihilated).thisVector
           parts == Filled([orb \in 0 .. self.L - 1 |-> part(orb)])
       IN [cnt \in 0 .. getVecLength(top, 0) - 1 |->
             SumFcn([orb \in 0 .. self.L - 1 |-> parts[orb][cnt]], 0 .. self.L - 1)]

\* The determinant at counter has every down-occupied orbital up-occupied as well.
DownWithinUp(self, counter) ==
  LET bits == getBitsOfCounter(self, 0, counter)
  IN \A orb \in 0 .. self.L - 1 : bits.bits_down[orb] = 1 => bits.bits_up[orb] = 1

(***************************************************************************)
(* C21.  CalcSpinSquared returns k(k+1) for a state without spin           *)
(* contamination with Nel_up - Nel_down = 2k (a vector that S+ sends to    *)
(* zero; for a vector that is not normalised, k(k+1) times its squared     *)
(* norm), and for the unit vector of a determinant in which every          *)
(* down-occupied orbital is up-occupied it returns S(S+1) with             *)
(* S = (Nel_up - Nel_down)/2, which is 0 for a closed shell.  The result   *)
(* is kept as 4 times the returned value.                                  *)
(***************************************************************************)
C21_SpinSquaredOfSpinPureState ==
  call.op = "CalcSpinSquared" =>
    LET twice_k == fci.Nel_up - fci.Nel_down
        length  == getVecLength(fci, 0)
        norm    == FCIddot(length, call.vector, call.vector)
    IN /\ \A k \in 0 .. length - 1 :
            (call.vector = UnitVector(length, k) /\ DownWithinUp(fci, k))
              => /\ twice_k >= 0
                 /\ call.result = twice_k * (twice_k + 2)
                 /\ fci.Nel_up = fci.Nel_down => call.result = 0
       /\ (twice_k >= 0 /\ \A cnt \in DOMAIN SpinRaised(fci, args.Ham, call.vector) :
                             SpinRaised(fci, args.Ham, call.vector)[cnt] = 0)
            => call.result = twice_k * (twice_k + 2) * norm

\* A state of two or more determinants that S+ sends to zero, in an instance in which
\* S+ has somewhere to go, with more up than down electrons.
C21_Witness ==
  /\ call.op = "CalcSpinSquared"
  /\ fci.Nel_up > fci.Nel_down
  /\ fci.Nel_down >= 1
  /\ fci.Nel_up < fci.L
  /\ Cardinality({cnt \in DOMAIN call.vector : call.vector[cnt] # 0}) >= 2
  /\ \A cnt \in DOMAIN SpinRaised(fci, args.Ham, call.vector) :
       SpinRaised(fci, args.Ham, call.vector)[cnt] = 0
  /\ call.result = (fci.Nel_up - fci.Nel_down) * (fci.Nel_up - fci.Nel_down + 2)
                     * FCIddot(getVecLength(fci, 0), call.vector, call.vector)

(***************************************************************************)
(* C22.  For every determinant k of the target sector, output[k] of        *)
(* DiagHamSquared is the k-th diagonal element of the squared Hamiltonian  *)
(* as two chained HamTimesVec calls on the k-th unit vector give it        *)
(* (both in the units of the chained calls).                               *)
(***************************************************************************)
C22_DiagHamSquaredIsDiagonalOfSquare ==
  call.op = "CheckHamSquaredDEBUG" =>
    \A row \in 0 .. call.vecLength - 1 :
      call.workspace[row] = call.HamHXV[row + call.vecLength * row]

\* A sector of several determinants, among them one with a nonzero diagonal element of
\* the square to which the pairs of excitations of the last loop contribute.
C22_Witness ==
  /\ call.op = "CheckHamSquaredDEBUG"
  /\ fci.L = MaxLDense
  /\ call.vecLength >= 4
  /\ \E row \in 0 .. call.vecLength - 1 :
       LET bits == getBitsOfCounter(fci, 0, row)
           parts == DiagHamSquaredParts(fci, bits.bits_up, bits.bits_down)
       IN /\ parts.exchange # 0
          /\ parts.direct # 0
          /\ parts.pairs # 0
          /\ call.workspace[row] # 0
          /\ call.workspace[row] = call.HamHXV[row + call.vecLength * row]

\* What C23 says of center irrep c of an instance.
ChunksCover(self, c) ==
  LET length   == getVecLength(self, c)
      space    == SpacePerVectorpiece(self, c)
      numPairs == self.irrep_center_num[c]
      count    == NumIterations(self, c)
      range(iteration) == ChunkRange(self, c, iteration)
  IN /\ \A iteration \in 0 .. count - 1 : range(iteration)[1] < range(iteration)[2]
     /\ \A iteration \in 0 .. count - 2 : range(iteration)[2] = range(iteration + 1)[1]
     /\ UNION {range(iteration)[1] .. range(iteration)[2] - 1 : iteration \in 0 .. count - 1}
          = 0 .. length - 1
     /\ space # 0
     /\ count = CeilDiv(length, space)
     /\ \A iteration \in 0 .. count - 1 :
          numPairs * (range(iteration)[2] - range(iteration)[1]) <= self.HXVsizeWorkspace

(***************************************************************************)
(* C23.  In HamTimesVec, for every center irrep c, the chunks              *)
(* [veccounter_start, veccounter_stop) of the successive iterations are    *)
(* non-empty, consecutive and disjoint and cover exactly                   *)
(* [0, getVecLength(c)); the number of iterations is                       *)
(* ceil(getVecLength(c) / chunk length); and in every chunk                *)
(* numPairs * (veccounter_stop - veccounter_start) <= HXVsizeWorkspace.    *)
(***************************************************************************)
C23_ChunksCoverVector ==
  (pc = "ready" /\ call.op = "HamTimesVec") => \A c \in Irreps(fci) : ChunksCover(fci, c)

\* The same for the calls in which no chunk length is 0.
C23_ChunksCoverVectorWhenDefined ==
  (pc = "ready" /\ call.op = "HamTimesVec" /\ ~DividesByZero(fci))
    => \A c \in Irreps(fci) : ChunksCover(fci, c)

C23_WitnessChunked ==
  /\ pc = "ready" /\ call.op = "HamTimesVec" /\ ~DividesByZero(fci)
  /\ \E c \in Irreps(fci) : /\ NumIterations(fci, c) >= 3
                            /\ getVecLength(fci, c) % SpacePerVectorpiece(fci, c) # 0
                            /\ fci.irrep_center_num[c] >= 2

\* ImagSol after its solve has returned and it has been scaled with precon: the
\* solution of CGCoreSolver from the guess - eta * precon * RHS, times precon.
ImagSolIsFinal(st) ==
  LET guess == [f |-> "times precon", factor |-> -st.eta, precon |-> st.bufs.precon,
                in |-> OnEntry("RHS")]
      solved == st.bufs.ImagSol.in
  IN /\ st.solving # "ImagSol"
     /\ st.bufs.ImagSol.f = "times precon"
     /\ st.bufs.ImagSol.factor = 1
     /\ st.bufs.ImagSol.precon = st.bufs.precon
     /\ solved = guess \/ (solved.f = "CGCoreSolver iterate" /\ solved.guess = guess)

\* - ( alpha + beta * H ) / eta applied to ImagSol
RealSolFromImagSol(st) ==
  [f |-> "CGAlphaPlusBetaHAM", alpha |-> <<-st.alpha, st.eta>>, beta |-> <<-st.beta, st.eta>>,
   in |-> st.bufs.ImagSol]

(***************************************************************************)
(* C24.  In CGSolveSystem the solve for ImagSol (from the guess            *)
(* - eta * precon * RHS) has returned and ImagSol has been scaled with     *)
(* precon before RealSol is first written; the first write to RealSol is   *)
(* - ( alpha + beta * H ) / eta applied to that final ImagSol; the second  *)
(* CGCoreSolver starts only from that guess divided element by element by  *)
(* precon, or by HEFF_DAVIDSON_PRECOND_CUTOFF where fabs( precon ) is not   *)
(* above it; and RHS is never written.                                     *)
(***************************************************************************)
C24_ImagSolBeforeRealSol ==
  [][ (call.op = "CGSolveSystem" /\ call'.op = "CGSolveSystem")
        => /\ call'.bufs.RHS = OnEntry("RHS")
           /\ (call.bufs.RealSol = OnEntry("RealSol") /\ call'.bufs.RealSol # OnEntry("RealSol"))
                => /\ ImagSolIsFinal(call)
                   /\ call'.bufs.ImagSol = call.bufs.ImagSol
                   /\ call'.bufs.RealSol = RealSolFromImagSol(call)
           /\ (call.solving # "RealSol" /\ call'.solving = "RealSol")
                => /\ ImagSolIsFinal(call)
                   /\ call'.bufs.ImagSol = call.bufs.ImagSol
                   /\ call'.bufs.RealSol = call.bufs.RealSol
                   /\ call.bufs.RealSol.f = "divided"
                   /\ call.bufs.RealSol.in = RealSolFromImagSol(call)
                   /\ \A cnt \in 0 .. getVecLength(fci, 0) - 1 :
                        call.bufs.RealSol.by[cnt]
                          = IF call.bufs.precon.above_cutoff[cnt] THEN "precon"
                            ELSE "HEFF_DAVIDSON_PRECOND_CUTOFF" ]_vars

\* A call has returned in which both solves have passed through the while body, one
\* element of precon is above the cutoff and another is not.
C24_Witness ==
  /\ call.op = "CGSolveSystem"
  /\ call.status = "returned"
  /\ call.bufs.RHS = OnEntry("RHS")
  /\ call.bufs.ImagSol.in.f = "CGCoreSolver iterate"
  /\ call.bufs.RealSol.in.f = "CGCoreSolver iterate"
  /\ call.bufs.RealSol.in.guess.f = "divided"
  /\ call.bufs.RealSol.in.guess.in.in = call.bufs.ImagSol
  /\ \E cnt1, cnt2 \in DOMAIN call.bufs.RealSol.in.guess.by :
       /\ call.bufs.RealSol.in.guess.by[cnt1] = "precon"
       /\ call.bufs.RealSol.in.guess.by[cnt2] = "HEFF_DAVIDSON_PRECOND_CUTOFF"

\* Whether one electron can be added to (removed from) the spin channel of a call.
CanShift(self, st) ==
  LET Nel == IF st.isUp THEN self.Nel_up ELSE self.Nel_down
  IN IF st.op = "GFmatrix_addition" THEN Nel < self.L ELSE Nel > 0

\* The right orbitals (as positions of orbsRight) for which something is to be solved.
RightsToSolve(self, Ham, st) ==
  { cnt_right \in 0 .. Len(st.orbsRight) - 1 :
      /\ CanShift(self, st)
      /\ \E cnt_left \in 1 .. Len(st.orbsLeft) :
           Ham.irreps[st.orbsLeft[cnt_left]] = Ham.irreps[st.orbsRight[cnt_right + 1]] }

(***************************************************************************)
(* C25.  GFmatrix_addition and GFmatrix_removal first set to zero all      *)
(* numLeft * numRight real and imaginary parts and every supplied 2-RDM;   *)
(* an auxiliary instance, with one electron more resp. less in the spin    *)
(* channel and the target irrep times the irrep of the right orbital, is   *)
(* built and solved only for a right orbital for which the electron can    *)
(* be added resp. removed and some left orbital has its irrep; and the     *)
(* entry of ( left , right ) is exactly zero whenever the electron cannot  *)
(* be added resp. removed or the two irreps differ, a call with nothing    *)
(* to solve returning without a fault.                                     *)
(***************************************************************************)
C25_ForbiddenEntriesStayZero ==
  ( /\ call.op \in {"GFmatrix_addition", "GFmatrix_removal"}
    /\ call.orbsLeft # << >> /\ call.orbsRight # << >>
    /\ \A cnt \in DOMAIN call.orbsLeft : call.orbsLeft[cnt] \in Orbitals(fci)
    /\ \A cnt \in DOMAIN call.orbsRight : call.orbsRight[cnt] \in Orbitals(fci) )
    => LET numLeft  == Len(call.orbsLeft)
           numRight == Len(call.orbsRight)
           shift    == IF call.op = "GFmatrix_addition" THEN 1 ELSE -1
           toSolve  == RightsToSolve(fci, args.Ham, call)
       IN /\ DOMAIN call.cleared.RePartsGF = 0 .. numLeft * numRight - 1
          /\ DOMAIN call.cleared.ImPartsGF = 0 .. numLeft * numRight - 1
          /\ \A counter \in 0 .. numLeft * numRight - 1 :
               call.cleared.RePartsGF[counter] = 0 /\ call.cleared.ImPartsGF[counter] = 0
          /\ DOMAIN call.cleared.TwoRDM = call.supplied
          /\ \A name \in call.supplied : \A cnt \in 0 .. numRight - 1 :
               \A elem \in 0 .. fci.L * fci.L * fci.L * fci.L - 1 :
                 call.cleared.TwoRDM[name][cnt][elem] = 0
          /\ \A n \in DOMAIN call.built :
               /\ call.built[n].right \in toSolve
               /\ call.built[n].Nel_up = fci.Nel_up + (IF call.isUp THEN shift ELSE 0)
               /\ call.built[n].Nel_down = fci.Nel_down + (IF call.isUp THEN 0 ELSE shift)
               /\ call.built[n].TargetIrrep
                    = getIrrepProduct(fci.TargetIrrep,
                                      args.Ham.irreps[call.orbsRight[call.built[n].right + 1]])
          /\ call.status = "returned"
               => {call.built[n].right : n \in DOMAIN call.built} = toSolve
          /\ \A cnt_left \in 0 .. numLeft - 1 : \A cnt_right \in 0 .. numRight - 1 :
               ( \/ ~CanShift(fci, call)
                 \/ args.Ham.irreps[call.orbsLeft[cnt_left + 1]]
                      # args.Ham.irreps[call.orbsRight[cnt_right + 1]] )
                 => /\ call.RePartsGF[cnt_left + numLeft * cnt_right] = 0
                    /\ call.ImPartsGF[cnt_left + numLeft * cnt_right] = 0
          /\ toSolve = {}
               => /\ call.status = "returned"
                  /\ call.built = << >>
                  /\ call.RePartsGF = call.cleared.RePartsGF
                  /\ call.ImPartsGF = call.cleared.ImPartsGF
                  /\ call.TwoRDM = call.cleared.TwoRDM

\* A call with two left and two right orbitals of two irreps and all 2-RDMs supplied has
\* returned: an entry of two orbitals of one irrep is not zero, the entries of two
\* orbitals of different irreps are zero, and a 2-RDM of a solution has an element
\* that is not zero.
C25_Witness ==
  /\ call.op \in {"GFmatrix_addition", "GFmatrix_removal"}
  /\ call.status = "returned"
  /\ Len(call.orbsLeft) = 2 /\ Len(call.orbsRight) = 2
  /\ call.supplied # {}
  /\ Len(call.built) = 2
  /\ \E cnt_left, cnt_right \in 0 .. 1 :
       /\ args.Ham.irreps[call.orbsLeft[cnt_left + 1]]
            = args.Ham.irreps[call.orbsRight[cnt_right + 1]]
       /\ call.RePartsGF[cnt_left + 2 * cnt_right] # 0
       /\ call.ImPartsGF[cnt_left + 2 * cnt_right] # 0
       /\ \E elem \in DOMAIN call.TwoRDM["TwoRDMreal"][cnt_right] :
            call.TwoRDM["TwoRDMreal"][cnt_right][elem] # 0
  /\ \E cnt_left, cnt_right \in 0 .. 1 :
       /\ args.Ham.irreps[call.orbsLeft[cnt_left + 1]]
            # args.Ham.irreps[call.orbsRight[cnt_right + 1]]
       /\ call.RePartsGF[cnt_left + 2 * cnt_right] = 0
       /\ call.ImPartsGF[cnt_left + 2 * cnt_right] = 0

(***************************************************************************)
(* C26.  In Fill2RDM and Fill3RDM every inner product of a workspace       *)
(* vector with the input vector is between vectors of the same symmetry    *)
(* sector and runs over exactly getVecLength( 0 ) entries: none reads the   *)
(* input vector at an index of getVecLength( 0 ) or more, none omits an     *)
(* entry below it.                                                         *)
(***************************************************************************)
C26_InnerProductsOverTargetSector ==
  /\ (call.op = "Fill2RDM" /\ call.status = "returned")
       => \A dot \in Fill2RDMInnerProducts(fci) :
            dot.sector = fci.TargetIrrep /\ dot.length = getVecLength(fci, 0)
  /\ (call.op = "Fill3RDM" /\ call.status = "returned")
       => \A dot \in Fill3RDMInnerProducts(fci) :
            dot.sector = fci.TargetIrrep /\ dot.length = getVecLength(fci, 0)

\* The same for Fill2RDM, and for the inner products of Fill3RDM with one and with
\* three excitations.
C26_InnerProductsButSecondOfFill3RDM ==
  /\ (call.op = "Fill2RDM" /\ call.status = "returned")
       => \A dot \in Fill2RDMInnerProducts(fci) :
            dot.sector = fci.TargetIrrep /\ dot.length = getVecLength(fci, 0)
  /\ (call.op = "Fill3RDM" /\ call.status = "returned")
       => \A dot \in Fill3RDMInnerProducts(fci) :
            /\ dot.sector = fci.TargetIrrep
            /\ dot.value # "< E_{crea2,anni2} E_{crea1,anni1} >"
                 => dot.length = getVecLength(fci, 0)

\* The occupation pattern of a getFCIcoeff call is a determinant of the target sector.
PatternInTargetSector(self, st) ==
  LET up   == {orb \in Orbitals(self) : st.bits_up[orb] = 1}
      down == {orb \in Orbitals(self) : st.bits_down[orb] = 1}
  IN /\ Cardinality(up) = self.Nel_up
     /\ Cardinality(down) = self.Nel_down
     /\ getIrrepProduct(IrrepOfOrbitals(self, up), IrrepOfOrbitals(self, down))
          = self.TargetIrrep

(***************************************************************************)
(* C27.  getFCIcoeff returns 0.0, without a read of vector, for every      *)
(* occupation pattern that is not a determinant of the target sector (a    *)
(* wrong number of up or down electrons, or irreps whose product is not    *)
(* the target irrep), and for every other pattern it reads vector at an    *)
(* index below getVecLength( 0 ).                                          *)
(***************************************************************************)
C27_CoeffOutsideSectorIsZero ==
  call.op = "getFCIcoeff" =>
    IF PatternInTargetSector(fci, call)
    THEN call.index \in 0 .. getVecLength(fci, 0) - 1
    ELSE call.index = -1 /\ call.result = 0

\* The same for the patterns with a wrong number of up or down electrons, and for the
\* determinants of the target sector.
C27_CoeffOfWrongCountIsZero ==
  call.op = "getFCIcoeff" =>
    LET up   == {orb \in Orbitals(fci) : call.bits_up[orb] = 1}
        down == {orb \in Orbitals(fci) : call.bits_down[orb] = 1}
    IN /\ PatternInTargetSector(fci, call) => call.index \in 0 .. getVecLength(fci, 0) - 1
       /\ (Cardinality(up) # fci.Nel_up \/ Cardinality(down) # fci.Nel_down)
            => call.index = -1 /\ call.result = 0

(***************************************************************************)
(* C28.  In HamTimesVec the chunk length space_per_vectorpiece is at       *)
(* least 1 for every center irrep of every instance the constructor        *)
(* accepts, so that the number of chunks is computed without a division    *)
(* by zero and the call runs to its end.                                   *)
(***************************************************************************)
C28_ChunkLengthAtLeastOne ==
  /\ pc = "ready" => \A c \in Irreps(fci) : SpacePerVectorpiece(fci, c) >= 1
  /\ (pc = "ready" /\ call.op = "HamTimesVec")
       => /\ call.division = "defined"
          /\ DOMAIN call.output = 0 .. getVecLength(fci, 0) - 1

\* 2^Lval as a number of three parts, top * 2^UIntBits + hi * 2^HalfBits + lo.
ExactTwoPow(Lval) ==
  [ top |-> IF Lval >= UIntBits THEN Pow2(Lval - UIntBits) ELSE 0,
    hi  |-> IF Lval >= HalfBits /\ Lval < UIntBits THEN Pow2(Lval - HalfBits) ELSE 0,
    lo  |-> IF Lval < HalfBits THEN Pow2(Lval) ELSE 0 ]

(***************************************************************************)
(* C29.  For every L that assert( L <= CHAR_BIT * sizeof(unsigned int) )   *)
(* accepts (L <= 32), TwoPowL computed in unsigned int is 2^L and no mask  *)
(* 1 << bit of str2bits overflows, so that the str2cnt tables get 2^L      *)
(* entries and the loop over the bit strings runs over all 2^L of them.    *)
(***************************************************************************)
C29_TwoPowLIsExact ==
  (call.op = "StartupCountersVsBitstrings" /\ call.status # "aborted")
    => /\ call.L <= UIntBits
       /\ call.status = "TwoPowL"
            => [top |-> 0, hi |-> call.TwoPowL.hi, lo |-> call.TwoPowL.lo]
                 = ExactTwoPow(call.orb)
       /\ call.status \in {"str2bits", "enumerating", "enumerated"}
            => /\ [top |-> 0, hi |-> call.entries.hi, lo |-> call.entries.lo]
                    = ExactTwoPow(call.L)
               /\ call.status # "enumerated"
               /\ ~call.mask.overflow

\* The same for L below the number of bits of unsigned int.
C29_TwoPowLIsExactBelowWidth ==
  (call.op = "StartupCountersVsBitstrings" /\ call.status # "aborted" /\ call.L < UIntBits)
    => /\ call.status = "TwoPowL"
            => [top |-> 0, hi |-> call.TwoPowL.hi, lo |-> call.TwoPowL.lo]
                 = ExactTwoPow(call.orb)
       /\ call.status \in {"str2bits", "enumerating", "enumerated"}
            => /\ [top |-> 0, hi |-> call.entries.hi, lo |-> call.entries.lo]
                    = ExactTwoPow(call.L)
               /\ call.status # "enumerated"
               /\ ~call.mask.overflow

(***************************************************************************)
(* C30.  For an instance with target irrep T, orbitals crea and anni and a *)
(* vector of the instance, the sum over the spin channels of 'A' on anni   *)
(* into the instance with one electron less in the channel and target      *)
(* T x irrep(anni), followed by 'C' on crea into the instance with the     *)
(* electron counts of the first and target T x irrep(crea) x irrep(anni),  *)
(* is element by element the result vector of                              *)
(* apply_excitation( vector, ., crea, anni, T ).  A channel without        *)
(* electrons has no instance with one electron less and adds nothing.      *)
(***************************************************************************)
C30_AnnihilateThenCreateIsExcitation ==
  call.op = "AnnihilateThenCreate" =>
    /\ DOMAIN call.chained = DOMAIN call.result_vector
    /\ \A cnt \in DOMAIN call.chained : call.chained[cnt] = call.result_vector[cnt]

\* Two different orbitals, electrons in both channels, and a determinant that the
\* excitation sends to minus another one.
C30_Witness ==
  /\ call.op = "AnnihilateThenCreate"
  /\ call.crea # call.anni
  /\ fci.Nel_up > 0
  /\ fci.Nel_down > 0
  /\ \E k \in DOMAIN call.vector : call.vector = UnitVector(getVecLength(fci, 0), k)
  /\ \E cnt \in DOMAIN call.chained :
       call.chained[cnt] = -1 /\ call.result_vector[cnt] = -1

====
